---- MODULE Spec2Model ----
(***************************************************************************)
(* TrayRunner configuration editor: the configuration tree (schema.py),    *)
(* the tree model and panel operations (tree_panel.py), node cloning       *)
(* (utils.py) and YAML persistence (yaml_io.py, main_window.py).           *)
(*                                                                         *)
(* Python objects live in a heap `nodes`: a function from object           *)
(* references (positive numbers) to the pydantic node records.  A list of  *)
(* nodes is a sequence of references, so that reference identity (`is`)    *)
(* and the identifier field (`.id`) stay two different things, as in the   *)
(* source.  Rows are 0-based as in Python/Qt; sequences are 1-based.       *)
(***************************************************************************)
EXTENDS Integers, Sequences, FiniteSets, TLC

VARIABLES
  nodes,        \* heap: object reference -> ItemNode / GroupNode / SeparatorNode
  root_items,   \* ConfigTreeModel.root_items (= config.items): sequence of references
  uuidCount,    \* number of uuid4() values drawn so far
  last,         \* outcome of the last handler that ran
  files,        \* the directory: path -> content, for the paths that exist
  clock,        \* wall clock, in seconds
  config_path,  \* MainWindow.config_path (NoPath for None)
  original_yaml, \* MainWindow.original_yaml (NoData for None)
  sv,           \* the call of YAMLHandler.save_yaml in progress, step by step
  watch,        \* ConfigFileWatcher: the watched path, a change seen, the dialog shown
  _saves,       \* SaveCoordinator._saves: path -> SaveWindow
  mono,         \* time.monotonic(), in half seconds
  reload,       \* the call of reloader.reload_trayrunner in progress, step by step
  cli,          \* the subprocess `trayrunner --reload` that call has started
  tray,         \* the tray process (TrayRunner.run) and its reload timer
  config_validator, \* validators.config_validator: the shared ConfigValidator instance
  has_unsaved_changes, \* MainWindow.has_unsaved_changes
  _lock,      \* SaveCoordinator._lock: the thread that holds it
  threads     \* the calls of the coordinator in progress, one per thread, with their locals

tree_vars == <<nodes, root_items, uuidCount>>
disk_vars == <<files, clock, config_path, original_yaml>>
rl_vars == <<reload, cli, tray, _lock, threads>>
svc_vars == <<sv, watch, _saves, mono, reload, cli, tray, _lock, threads>>
vars == <<nodes, root_items, uuidCount, last, files, clock, config_path, original_yaml,
          sv, watch, _saves, mono, reload, cli, tray, config_validator,
          has_unsaved_changes, _lock, threads>>

\* ------------------------------------------------------------------ bounds
\* at most this many nodes are ever created in one run
MaxUuid == 3
\* drop rows offered by the view range over -1 .. MaxRow
MaxRow == 3
\* the clock runs from 1 to MaxClock
MaxClock == 2
\* an editing session with a document creates at most MaxSessionNodes nodes
\* itself and draws at most MaxSessionIds identifiers, loads included
MaxSessionNodes == 2
MaxSessionIds == 4

\* ------------------------------------------------------------- conventions
\* Python None / a null internalPointer
None == 0
\* QModelIndex(): the invalid index.  A valid index is the reference of the
\* node it points to (its internalPointer).
InvalidIndex == 0
\* the parent id "ROOT" (identifiers are numbers >= 1 in the model)
ROOT == 0
\* list references: the root list, a group's own `items` list (the group's
\* reference), or a fresh `[]` that belongs to nothing
RootList == 0
Detached == -1

Tree == [nodes |-> nodes, root_items |-> root_items]

\* ------------------------------------------------------------ Python lists
Min(a, b) == IF a < b THEN a ELSE b
Max(a, b) == IF a > b THEN a ELSE b

\* s[a:b] for a, b >= 0
PySlice(s, a, b) ==
  LET lo == Min(a, Len(s))
      hi == Min(b, Len(s))
  IN IF hi <= lo THEN <<>> ELSE SubSeq(s, lo + 1, hi)

\* del s[a:b] for a, b >= 0
PyDelSlice(s, a, b) ==
  LET lo == Min(a, Len(s))
      hi == Min(b, Len(s))
  IN IF hi <= lo THEN s ELSE SubSeq(s, 1, lo) \o SubSeq(s, hi + 1, Len(s))

\* s.insert(i, x): a negative i counts from the end, and i is clamped to [0, len]
PyInsert(s, i, x) ==
  LET j == IF i < 0 THEN Max(i + Len(s), 0) ELSE Min(i, Len(s))
  IN SubSeq(s, 1, j) \o <<x>> \o SubSeq(s, j + 1, Len(s))

\* for i, node in enumerate(block): s.insert(row + i, node)
RECURSIVE PyInsertAll(_, _, _, _)
PyInsertAll(s, row, block, i) ==
  IF i >= Len(block) THEN s
  ELSE PyInsertAll(PyInsert(s, row + i, block[i + 1]), row, block, i + 1)

SeqToSet(s) == {s[i] : i \in 1..Len(s)}

\* ------------------------------------------------------------------ schema
\* an identifier source that hands out the same value again
generate_node_id_Repeating(c) == 1

\* uuid4(): a value never drawn before; c is the number of values drawn so far
generate_node_id(c) == c + 1

ItemNode(id, label, cmd, terminal, confirm, env) ==
  [type |-> "item", id |-> id, label |-> label, cmd |-> cmd,
   terminal |-> terminal, confirm |-> confirm, env |-> env]

GroupNode(id, label, items) ==
  [type |-> "group", id |-> id, label |-> label, items |-> items]

SeparatorNode(id) == [type |-> "separator", id |-> id]

\* an environment is a function from names to values
NoEnv == [k \in {} |-> ""]

\* A label is text: `base` followed by blank-separated suffix tokens.
\*   [k |-> "copy", n |-> 0]  is "(copy)"      [k |-> "copy", n |-> N]  is "(copy N)"
\*   [k |-> "num",  n |-> K]  is "K"
\* so Label("Build", <<CopyTok(0), NumTok(2)>>) is the string "Build (copy) 2"
Label(base, tail) == [base |-> base, tail |-> tail]
CopyTok(n) == [k |-> "copy", n |-> n]
NumTok(n) == [k |-> "num", n |-> n]
Text(base) == Label(base, <<>>)

IsGroup(T, n) == n # None /\ T.nodes[n].type = "group"
IsSeparator(T, n) == n # None /\ T.nodes[n].type = "separator"

\* the list a list reference denotes
ListAt(T, ref) ==
  IF ref = RootList THEN T.root_items
  ELSE IF ref = Detached THEN <<>>
  ELSE T.nodes[ref].items

\* list mutation in place; a mutation of a detached list is lost
SetList(T, ref, s) ==
  IF ref = RootList THEN [T EXCEPT !.root_items = s]
  ELSE IF ref = Detached THEN T
  ELSE [T EXCEPT !.nodes[ref].items = s]

\* a new Python object holding `rec`; NewRef is a reference no live object has
NewRef(T) == Max(0, CHOOSE m \in DOMAIN T.nodes \cup {0} :
                      \A k \in DOMAIN T.nodes : k <= m) + 1
Alloc(T, ref, rec) == [T EXCEPT !.nodes = T.nodes @@ (ref :> rec)]

\* all lists of the heap
AllLists(T) == {RootList} \cup {n \in DOMAIN T.nodes : T.nodes[n].type = "group"}

\* the list that really holds node n, and n's 0-based row in it
HolderOf(T, n) ==
  CHOOSE ref \in AllLists(T) : n \in SeqToSet(ListAt(T, ref))

RowIn(s, n) == (CHOOSE i \in 1..Len(s) : s[i] = n) - 1

\* index.row() of the view's index for node n
RowOf(T, n) == RowIn(ListAt(T, HolderOf(T, n)), n)

\* --------------------------------------------------- ConfigTreeModel lookups
\* ConfigTreeModel.parent: scans the root list and the children of root groups
RECURSIVE parent_scan(_, _, _)
parent_scan(T, node, i) ==
  IF i > Len(T.root_items) THEN InvalidIndex
  ELSE LET root_item == T.root_items[i] IN
       IF root_item = node THEN InvalidIndex
       ELSE IF IsGroup(T, root_item) /\ node \in SeqToSet(T.nodes[root_item].items)
            THEN root_item
       ELSE parent_scan(T, node, i + 1)

parent(T, index) ==
  IF index = InvalidIndex THEN InvalidIndex ELSE parent_scan(T, index, 1)

\* ConfigTreeModel._find_node_by_id (the later definition; both are alike)
RECURSIVE _find_node_by_id(_, _, _)
_find_node_by_id(T, node_id, items) ==
  IF items = <<>> THEN None
  ELSE LET item == Head(items) IN
       IF T.nodes[item].id = node_id THEN item
       ELSE LET found == IF IsGroup(T, item)
                         THEN _find_node_by_id(T, node_id, T.nodes[item].items)
                         ELSE None
            IN IF found # None THEN found
               ELSE _find_node_by_id(T, node_id, Tail(items))

\* ConfigTreeModel._get_children_list (the later definition; both are alike)
_get_children_list(T, parent_id) ==
  IF parent_id = ROOT THEN RootList
  ELSE LET node == _find_node_by_id(T, parent_id, T.root_items) IN
       IF node # None /\ IsGroup(T, node) THEN node ELSE Detached

\* ConfigTreeModel._get_parent_id: the definition at the end of the class
\* replaces the earlier one; it answers the id of the PARENT of the index
_get_parent_id(T, index) ==
  IF index = InvalidIndex THEN ROOT
  ELSE LET parent_index == parent(T, index) IN
       IF parent_index = InvalidIndex THEN ROOT
       ELSE T.nodes[parent_index].id

\* ConfigTreeModel._drag_range_for
RECURSIVE next_separator(_, _, _)
next_separator(T, children, end) ==
  IF end < Len(children) /\ ~IsSeparator(T, children[end + 1])
  THEN next_separator(T, children, end + 1)
  ELSE end

_drag_range_for(T, parent_id, row) ==
  LET children == ListAt(T, _get_children_list(T, parent_id)) IN
  IF row >= Len(children) THEN <<row, row + 1>>
  ELSE IF IsSeparator(T, children[row + 1])
       THEN <<row, next_separator(T, children, row + 1)>>
       ELSE <<row, row + 1>>

\* ConfigTreeModel.mimeData: the payload of a drag of the node at `index`
mimeData(T, index) ==
  LET parent_id == _get_parent_id(T, index)
      row == RowOf(T, index)
      range == _drag_range_for(T, parent_id, row)
  IN [src_parent |-> parent_id, start |-> range[1], end |-> range[2]]

\* ConfigTreeModel.canDropMimeData
canDropMimeData(T, action, row, parent_index) ==
  IF action # "MoveAction" THEN FALSE
  ELSE IF parent_index # InvalidIndex /\ IsSeparator(T, parent_index) THEN FALSE
  ELSE IF parent_index # InvalidIndex /\ ~IsGroup(T, parent_index) /\ row < 0 THEN FALSE
  ELSE TRUE

\* dropMimeData with the block taken out of the source list before the
\* drop-into-itself test
dropMimeData_RemoveFirst(T, payload, action, row0, parent_index) ==
  LET src_list == _get_children_list(T, payload.src_parent)
      dst_parent_id == _get_parent_id(T, parent_index)
      block == PySlice(ListAt(T, src_list), payload.start, payload.end)
      T1 == SetList(T, src_list, PyDelSlice(ListAt(T, src_list), payload.start, payload.end))
      into_itself == \E i \in 1..Len(block) :
                        IsGroup(T, block[i]) /\ dst_parent_id = T.nodes[block[i]].id
  IN IF into_itself THEN [ret |-> FALSE, T |-> T1]
     ELSE [ret |-> TRUE,
           T |-> SetList(T1, _get_children_list(T, dst_parent_id),
                         PyInsertAll(ListAt(T1, _get_children_list(T, dst_parent_id)),
                                     IF row0 < 0 THEN Len(ListAt(T, _get_children_list(T, dst_parent_id))) ELSE row0,
                                     block, 0))]

\* dropMimeData without the adjustment of the row for a move within one list
dropMimeData_NoAdjust(T, payload, action, row0, parent_index) ==
  IF action # "MoveAction" THEN [ret |-> FALSE, T |-> T]
  ELSE
  LET src_parent_id == payload.src_parent
      src_start == payload.start
      src_end == payload.end
      dst_parent_id == _get_parent_id(T, parent_index)
      src_list == _get_children_list(T, src_parent_id)
      dst_list == _get_children_list(T, dst_parent_id)
      row1 == IF row0 < 0 THEN Len(ListAt(T, dst_list)) ELSE row0
      block == PySlice(ListAt(T, src_list), src_start, src_end)
      into_itself == \E i \in 1..Len(block) :
                        IsGroup(T, block[i]) /\ dst_parent_id = T.nodes[block[i]].id
      T1 == SetList(T, src_list, PyDelSlice(ListAt(T, src_list), src_start, src_end))
      row2 == row1
      T2 == SetList(T1, dst_list, PyInsertAll(ListAt(T1, dst_list), row2, block, 0))
  IN IF into_itself THEN [ret |-> FALSE, T |-> T]
     ELSE [ret |-> TRUE, T |-> T2]

\* ConfigTreeModel.dropMimeData: [ret, T] = the return value and the tree after
dropMimeData(T, payload, action, row0, parent_index) ==
  IF action # "MoveAction" THEN [ret |-> FALSE, T |-> T]
  ELSE
  LET src_parent_id == payload.src_parent
      src_start == payload.start
      src_end == payload.end
      dst_parent_id == _get_parent_id(T, parent_index)
      src_list == _get_children_list(T, src_parent_id)
      dst_list == _get_children_list(T, dst_parent_id)
      row1 == IF row0 < 0 THEN Len(ListAt(T, dst_list)) ELSE row0
      block == PySlice(ListAt(T, src_list), src_start, src_end)
      into_itself == \E i \in 1..Len(block) :
                        IsGroup(T, block[i]) /\ dst_parent_id = T.nodes[block[i]].id
      T1 == SetList(T, src_list, PyDelSlice(ListAt(T, src_list), src_start, src_end))
      row2 == IF src_parent_id = dst_parent_id /\ row1 > src_start
              THEN row1 - (src_end - src_start) ELSE row1
      T2 == SetList(T1, dst_list, PyInsertAll(ListAt(T1, dst_list), row2, block, 0))
  IN IF into_itself THEN [ret |-> FALSE, T |-> T]
     ELSE [ret |-> TRUE, T |-> T2]

\* ------------------------------------------------------------- persistence
\* A path is a file name in the configuration directory: `stem` + `ext`, and for
\* a backup the timestamp that ends the name (0 when the name has none).
Path(stem, ext, ts) == [stem |-> stem, ext |-> ext, ts |-> ts]
NoPath == Path("", "", 0)
NoFiles == [p \in {} |-> 0]
NoData == [kind |-> "none"]

\* Path.with_suffix(suffix): the last suffix replaced
with_suffix(path, suffix, ts) == Path(path.stem, suffix, ts)

\* Path.exists()
exists(fs, path) == path \in DOMAIN fs

\* open(path, 'w') + write, shutil.copy2, shutil.move
write_file(fs, path, content) ==
  [p \in DOMAIN fs \cup {path} |-> IF p = path THEN content ELSE fs[p]]
remove_file(fs, path) == [p \in DOMAIN fs \ {path} |-> fs[p]]
copy2(fs, src, dst) == write_file(fs, dst, fs[src])
move(fs, src, dst) == remove_file(write_file(fs, dst, fs[src]), src)

\* Config.model_dump(): the nodes as dictionaries, identifiers included
RECURSIVE model_dump(_, _)
model_dump(T, items) ==
  [i \in 1..Len(items) |->
     LET n == T.nodes[items[i]] IN
     IF n.type = "group"
     THEN [type |-> "group", id |-> n.id, label |-> n.label,
           items |-> model_dump(T, n.items)]
     ELSE n]

\* YAMLHandler._remove_ids_recursive: every dictionary loses its key 'id',
\* every value of a dictionary and every element of a list is visited
RECURSIVE _remove_ids_recursive(_)
remove_ids_dict(d) ==
  [k \in DOMAIN d \ {"id"} |->
     IF k = "items" THEN _remove_ids_recursive(d[k])
     ELSE IF k = "env" THEN [e \in DOMAIN d[k] \ {"id"} |-> d[k][e]]
     ELSE d[k]]
\* id stripping that leaves the records below the first level as they are
_remove_ids_recursive_TopOnly(list) ==
  [i \in 1..Len(list) |-> [k \in DOMAIN list[i] \ {"id"} |-> list[i][k]]]

_remove_ids_recursive(list) ==
  [i \in 1..Len(list) |-> remove_ids_dict(list[i])]

\* a YAML document whose root mapping holds the list `items`
Document(items) == [kind |-> "document", items |-> items]
\* file content that is not YAML, or not a configuration
Malformed == [kind |-> "malformed"]

\* YAMLHandler.create_backup
create_backup(fs, path, now) ==
  IF ~exists(fs, path) THEN [raised |-> "FileNotFoundError", fs |-> fs, backup_path |-> NoPath]
  ELSE LET backup_path == with_suffix(path, ".yaml.bak-", now) IN
       [raised |-> "", fs |-> copy2(fs, path, backup_path), backup_path |-> backup_path]

\* YAMLHandler.save_yaml; _preserve_comments copies the new data key by key
\* into a fresh mapping, so what is written is the new data either way
save_yaml(fs, path, T, original, now) ==
  LET backup == create_backup(fs, path, now) IN
  IF backup.raised # "" THEN backup
  ELSE LET data == _remove_ids_recursive(model_dump(T, T.root_items))
           temp_path == with_suffix(path, ".tmp", 0)
           written == write_file(backup.fs, temp_path, Document(data))
       IN [raised |-> "", fs |-> move(written, temp_path, path),
           backup_path |-> backup.backup_path]

\* Config.model_validate on the `items` of a document: one new object per
\* record, each with a default_factory identifier; [T, refs, c]
RECURSIVE model_validate(_, _, _, _)
model_validate(T, records, c, done) ==
  IF records = <<>> THEN [T |-> T, refs |-> done, c |-> c]
  ELSE LET d == Head(records)
           ref == NewRef(T)
           id == generate_node_id(c)
       IN IF d.type = "group"
          THEN LET T1 == Alloc(T, ref, GroupNode(id, d.label, <<>>))
                   kids == model_validate(T1, d.items, c + 1, <<>>)
               IN model_validate([kids.T EXCEPT !.nodes[ref].items = kids.refs],
                                 Tail(records), kids.c, Append(done, ref))
          ELSE IF d.type = "item"
          THEN model_validate(
                 Alloc(T, ref, ItemNode(id, d.label, d.cmd, d.terminal, d.confirm, d.env)),
                 Tail(records), c + 1, Append(done, ref))
          ELSE model_validate(Alloc(T, ref, SeparatorNode(id)),
                              Tail(records), c + 1, Append(done, ref))

EmptyTree == [nodes |-> <<>>, root_items |-> <<>>]

\* load_yaml raising for a path that does not exist
load_yaml_MissingRaises(fs, path, c) ==
  IF ~exists(fs, path) \/ fs[path].kind # "document"
  THEN [raised |-> "ValueError", T |-> EmptyTree, original |-> NoData, c |-> c]
  ELSE LET config == model_validate(EmptyTree, fs[path].items, c, <<>>) IN
       [raised |-> "",
        T |-> [nodes |-> config.T.nodes, root_items |-> config.refs],
        original |-> fs[path], c |-> config.c]

\* YAMLHandler.load_yaml: [raised, T, original, c]. Content that is not a
\* document (Malformed, a partly written file) makes yaml.load or
\* Config.model_validate raise, which load_yaml turns into ValueError.
load_yaml(fs, path, c) ==
  IF ~exists(fs, path) THEN [raised |-> "", T |-> EmptyTree, original |-> NoData, c |-> c]
  ELSE IF fs[path].kind # "document"
  THEN [raised |-> "ValueError", T |-> EmptyTree, original |-> NoData, c |-> c]
  ELSE LET config == model_validate(EmptyTree, fs[path].items, c, <<>>) IN
       [raised |-> "",
        T |-> [nodes |-> config.T.nodes, root_items |-> config.refs],
        original |-> fs[path], c |-> config.c]

\* the backups of `path`, newest first: the files named <stem>.yaml.bak-*
RECURSIVE newest_first(_)
newest_first(S) ==
  IF S = {} THEN <<>>
  ELSE LET top == CHOOSE p \in S : \A q \in S : q.ts <= p.ts IN
       <<top>> \o newest_first(S \ {top})

\* YAMLHandler.get_backup_info
get_backup_info(fs, path) ==
  LET found == newest_first({p \in DOMAIN fs : p.stem = path.stem /\ p.ext = ".yaml.bak-"})
  IN [i \in 1..Len(found) |->
        [original_path |-> path, backup_path |-> found[i], timestamp |-> found[i].ts]]

\* ---------------------------------------------------------------- services
\* no call of save_yaml is in progress.  A call in progress is at `pc`, saves
\* to `path`, found `pre` there, makes the backup `backup_path`, writes `data`;
\* `fault` names the step that failed, `raised` the exception that leaves it
NoSave == [pc |-> "idle", path |-> NoPath, pre |-> NoData, backup_path |-> NoPath,
           data |-> NoData, synced |-> FALSE, fault |-> "", raised |-> ""]

\* MainWindow.setup_file_watcher: a ConfigFileWatcher on config_path, if there is
\* one.  `pending` is a change of the watched file the FileWatcher has seen and
\* not yet reported ("own": made by this session's save); `dialog` is the
\* question on_external_file_change is showing, named by the change behind it
Watching(path) == [path |-> path, pending |-> "none", dialog |-> "none"]

\* SaveCoordinator.__init__: no save windows
NoWindows == [p \in {} |-> 0]

\* no reload requested: the (ok, msg) of the socket attempt, the (ok_cli,
\* msg_cli) of the CLI attempt, the attempts made, the time spent in the wait
\* in progress (half seconds), the pair returned, the exception that escaped
NoReload == [pc |-> "idle", via |-> "", wait |-> 0, ok |-> FALSE, msg |-> "",
             ok_cli |-> FALSE, msg_cli |-> "", socket_attempts |-> 0,
             cli_attempts |-> 0, result |-> <<FALSE, <<>>>>, raised |-> "",
             location |-> <<>>, checked |-> <<>>, connected |-> <<>>]

\* no subprocess; `returncode` is -1 while there is none.  `wrote`: it has
\* written the trigger file; `handled`: the tray has taken the trigger it wrote
NoCli == [pc |-> "none", sleep |-> 0, returncode |-> -1, stdout |-> "",
          wrote |-> FALSE, handled |-> FALSE]

\* no tray process; `reloaded`: reload_config has run since the last request
NoTray == [running |-> FALSE, timer |-> 0, reloaded |-> FALSE]

\* threading.Lock(): nobody holds it
Unlocked == "none"
\* neither the main thread nor the watch thread is inside the coordinator.
\* main: the call's position, its path and the os.stat result of end_save;
\* watcher: the position, the path, the `now` of should_ignore_change and
\* whether the path's window was open at that `now`
NoCalls == [main |-> [pc |-> "idle", path |-> NoPath, st |-> [raised |-> "", value |-> NoData]],
            watcher |-> [pc |-> "idle", path |-> NoPath, now |-> 0, inside |-> FALSE]]

\* the services after MainWindow.__init__ with config_path = path
SvcInit(path) ==
  /\ sv = NoSave
  /\ watch = Watching(path)
  /\ _saves = NoWindows
  /\ mono = 0
  /\ reload = NoReload
  /\ cli = NoCli
  /\ tray = NoTray
  /\ _lock = Unlocked
  /\ threads = NoCalls

\* ----------------------------------------------------------------- validator
\* A string built by an f-string is the sequence of its parts: "items[2]" is
\* <<"items", 2>>, "items[0].items[1]" is <<"items", 0, ".items", 1>>,
\* "root.items[2]" is <<"root", ".items", 2>>.
ValidationError(type, location, message, field) ==
  [type |-> type, location |-> location, message |-> message, field |-> field]

\* ConfigValidator.__init__
NoFindings == [errors |-> <<>>, warnings |-> <<>>]

\* self.errors.append / self.warnings.append
add_error(self, location, message, field) ==
  [self EXCEPT !.errors = Append(@, ValidationError("error", location, message, field))]
add_warning(self, location, message, field) ==
  [self EXCEPT !.warnings = Append(@, ValidationError("warning", location, message, field))]

\* not s or not s.strip(), for a string and for a label
blank(s) == s \in {"", " "}
blank_label(label) == label.tail = <<>> /\ blank(label.base)

\* the loop of _validate_item over item.env (the values are strings, by the schema)
RECURSIVE validate_env(_, _, _)
validate_env(self, keys, path) ==
  IF keys = {} THEN self
  ELSE LET key == CHOOSE k \in keys : TRUE IN
       validate_env(IF blank(key)
                    THEN add_error(self, path, <<"Environment variable key cannot be empty">>,
                                   <<"env.", key>>)
                    ELSE self,
                    keys \ {key}, path)

\* ConfigValidator._validate_item
_validate_item(self, item, path) ==
  LET s1 == IF blank_label(item.label)
            THEN add_error(self, path, <<"Item label cannot be empty">>, <<"label">>)
            ELSE self
      s2 == IF blank(item.cmd)
            THEN add_error(s1, path, <<"Item command cannot be empty">>, <<"cmd">>)
            ELSE s1
  IN validate_env(s2, DOMAIN item.env, path)

\* ConfigValidator._check_duplicate_labels, from position i with `labels` seen
RECURSIVE check_duplicates_from(_, _, _, _, _, _)
check_duplicates_from(self, T, items, path, i, labels) ==
  IF i >= Len(items) THEN self
  ELSE LET item == T.nodes[items[i + 1]] IN
       IF item.type \in {"item", "group"}
       THEN check_duplicates_from(
              IF item.label \in labels
              THEN add_error(self, path \o <<".items", i>>,
                             <<"Duplicate label: ", item.label>>, <<"label">>)
              ELSE self,
              T, items, path, i + 1, labels \cup {item.label})
       ELSE check_duplicates_from(self, T, items, path, i + 1, labels)

_check_duplicate_labels(self, T, items, path) ==
  check_duplicates_from(self, T, items, path, 0, {})

\* ConfigValidator._validate_node and _validate_group; validate_children is the
\* loop of _validate_group over group.items, from position i
RECURSIVE _validate_node(_, _, _, _)
RECURSIVE validate_children(_, _, _, _, _)
\* _validate_group without the warning for a group that has no items
_validate_group_Silent(self, T, group, path) ==
  LET s1 == IF blank_label(group.label)
            THEN add_error(self, path, <<"Group label cannot be empty">>, <<"label">>)
            ELSE self
  IN IF group.items = <<>>
     THEN s1
     ELSE _check_duplicate_labels(validate_children(s1, T, group.items, path, 0),
                                  T, group.items, path)

\* _validate_group without its call of _check_duplicate_labels
_validate_group_NoDuplicates(self, T, group, path) ==
  LET s1 == IF blank_label(group.label)
            THEN add_error(self, path, <<"Group label cannot be empty">>, <<"label">>)
            ELSE self
  IN IF group.items = <<>>
     THEN add_warning(s1, path, <<"Group has no items">>, <<"items">>)
     ELSE validate_children(s1, T, group.items, path, 0)

_validate_group(self, T, group, path) ==
  LET s1 == IF blank_label(group.label)
            THEN add_error(self, path, <<"Group label cannot be empty">>, <<"label">>)
            ELSE self
  IN IF group.items = <<>>
     THEN add_warning(s1, path, <<"Group has no items">>, <<"items">>)
     ELSE _check_duplicate_labels(validate_children(s1, T, group.items, path, 0),
                                  T, group.items, path)

validate_children(self, T, items, path, i) ==
  IF i >= Len(items) THEN self
  ELSE validate_children(_validate_node(self, T, items[i + 1], path \o <<".items", i>>),
                         T, items, path, i + 1)

_validate_node(self, T, node, path) ==
  IF T.nodes[node].type = "item" THEN _validate_item(self, T.nodes[node], path)
  ELSE IF T.nodes[node].type = "group" THEN _validate_group(self, T, T.nodes[node], path)
  ELSE self

\* ConfigValidator._validate_separator_placement, from position i
RECURSIVE separator_placement_from(_, _, _, _, _)
separator_placement_from(self, T, items, path, i) ==
  IF i >= Len(items) THEN self
  ELSE LET node == items[i + 1]
           here == path \o <<i>>
           s1 == IF i = 0
                 THEN add_warning(self, here,
                                  <<"Separator at beginning has no visual effect">>, <<"type">>)
                 ELSE self
           s2 == IF i = Len(items) - 1
                 THEN add_warning(s1, here,
                                  <<"Separator at end has no visual effect">>, <<"type">>)
                 ELSE s1
           s3 == IF i + 1 < Len(items) /\ IsSeparator(T, items[i + 2])
                 THEN add_warning(s2, here,
                                  <<"Back-to-back separators have no visual effect">>,
                                  <<"type">>)
                 ELSE s2
       IN IF IsSeparator(T, node)
          THEN separator_placement_from(s3, T, items, path, i + 1)
          ELSE IF IsGroup(T, node)
          THEN separator_placement_from(
                 separator_placement_from(self, T, T.nodes[node].items,
                                          here \o <<".items">>, 0),
                 T, items, path, i + 1)
          ELSE separator_placement_from(self, T, items, path, i + 1)

\* _validate_separator_placement with a loop that starts at the second row
_validate_separator_placement_FromSecond(self, T, items, path) ==
  separator_placement_from(self, T, items, path, 1)

_validate_separator_placement(self, T, items, path) ==
  separator_placement_from(self, T, items, path, 0)

\* the loop of validate_config over config.items, from position i
RECURSIVE validate_items(_, _, _, _)
validate_items(self, T, items, i) ==
  IF i >= Len(items) THEN self
  ELSE validate_items(_validate_node(self, T, items[i + 1], <<"items", i>>), T, items, i + 1)

\* validate_config without the warning for a configuration that has no items
validate_config_EmptyIsFine(self, T) ==
  LET s0 == NoFindings
      s1 == IF T.root_items = <<>>
            THEN s0
            ELSE _validate_separator_placement(
                   _check_duplicate_labels(validate_items(s0, T, T.root_items, 0),
                                           T, T.root_items, <<"root">>),
                   T, T.root_items, <<"items">>)
  IN [self |-> s1, ret |-> s1.errors \o s1.warnings]

\* validate_config without the two clear() calls it starts with
validate_config_NoClear(self, T) ==
  LET s1 == IF T.root_items = <<>>
            THEN add_warning(self, <<"root">>, <<"Configuration has no items">>, <<"items">>)
            ELSE _validate_separator_placement(
                   _check_duplicate_labels(validate_items(self, T, T.root_items, 0),
                                           T, T.root_items, <<"root">>),
                   T, T.root_items, <<"items">>)
  IN [self |-> s1, ret |-> s1.errors \o s1.warnings]

\* ConfigValidator.validate_config on the instance `self`:
\* [self, ret] = the instance afterwards and the list returned
validate_config(self, T) ==
  LET s0 == NoFindings
      s1 == IF T.root_items = <<>>
            THEN add_warning(s0, <<"root">>, <<"Configuration has no items">>, <<"items">>)
            ELSE _validate_separator_placement(
                   _check_duplicate_labels(validate_items(s0, T, T.root_items, 0),
                                           T, T.root_items, <<"root">>),
                   T, T.root_items, <<"items">>)
  IN [self |-> s1, ret |-> s1.errors \o s1.warnings]

\* MainWindow.update_validation (called by on_data_changed and
\* load_config_file): the instance config_validator after it
update_validation(self, T) == validate_config(self, T).self

\* ------------------------------------------------------------------ state
NoOp == [op |-> "init", result |-> "none", why |-> "none"]

\* MainWindow.__init__ with no file at the default path: load_default_config
\* creates an empty Config
Init ==
  /\ nodes = <<>>
  /\ root_items = <<>>
  /\ uuidCount = 0
  /\ last = NoOp
  /\ files = NoFiles
  /\ clock = 1
  /\ config_path = NoPath
  /\ original_yaml = NoData
  /\ SvcInit(NoPath)
  /\ config_validator = update_validation(NoFindings, Tree)
  /\ has_unsaved_changes = FALSE

Live == DOMAIN nodes
Indexes == Live \cup {InvalidIndex}

\* ConfigTreeModel.add_item / add_group / add_separator: append to the root
\* list, or to the items of the group at parent_index; nothing for another index
add_node(T, parent_index, ref, rec) ==
  IF parent_index = InvalidIndex
  THEN LET T1 == Alloc(T, ref, rec) IN SetList(T1, RootList, Append(T1.root_items, ref))
  ELSE IF IsGroup(T, parent_index)
  THEN LET T1 == Alloc(T, ref, rec) IN
       SetList(T1, parent_index, Append(T1.nodes[parent_index].items, ref))
  ELSE T

AddStep(kind, parent_index, rec) ==
  /\ uuidCount < MaxUuid
  /\ LET T2 == add_node(Tree, parent_index, NewRef(Tree), rec) IN
     /\ nodes' = T2.nodes
     /\ root_items' = T2.root_items
     \* the node, and its identifier, is made only where it is appended
     /\ uuidCount' = IF T2 = Tree THEN uuidCount ELSE uuidCount + 1
     \* self.data_changed.emit() -> MainWindow.on_data_changed
     /\ config_validator' = update_validation(config_validator, T2)
  \* MainWindow.on_data_changed: self.mark_unsaved()
  /\ has_unsaved_changes' = TRUE
  /\ UNCHANGED <<disk_vars, svc_vars>>
  /\ last' = [op |-> kind, result |-> "ok", why |-> "added"]

\* TreePanel.add_item -> ConfigTreeModel.add_item
add_item ==
  \E parent_index \in Indexes :
    AddStep("add_item", parent_index,
            ItemNode(generate_node_id(uuidCount), Text("New Item"), "echo 'Hello World'",
                     FALSE, FALSE, NoEnv))

\* TreePanel.add_group -> ConfigTreeModel.add_group
add_group ==
  \E parent_index \in Indexes :
    AddStep("add_group", parent_index,
            GroupNode(generate_node_id(uuidCount), Text("New Group"), <<>>))

\* TreePanel.add_separator -> ConfigTreeModel.add_separator
add_separator ==
  \E parent_index \in Indexes :
    AddStep("add_separator", parent_index, SeparatorNode(generate_node_id(uuidCount)))

\* a drag of the node at `index` dropped at (row, parent_index): the view calls
\* mimeData, then canDropMimeData, then dropMimeData
drop_gesture(T, index, parent_index, row) ==
  LET payload == mimeData(T, index) IN
  IF ~canDropMimeData(T, "MoveAction", row, parent_index)
  THEN [result |-> "rejected", why |-> "canDropMimeData", T |-> T]
  ELSE LET res == dropMimeData(T, payload, "MoveAction", row, parent_index) IN
       IF res.ret THEN [result |-> "ok", why |-> "moved", T |-> res.T]
       ELSE [result |-> "rejected", why |-> "dropMimeData", T |-> res.T]

drag_drop ==
  \E index \in Live, parent_index \in Indexes, row \in -1..MaxRow :
    \E out \in {drop_gesture(Tree, index, parent_index, row)} :
    /\ nodes' = out.T.nodes
    /\ root_items' = out.T.root_items
    /\ uuidCount' = uuidCount
    \* self.changed.emit() -> TreePanel.on_model_changed -> MainWindow.on_data_changed
    /\ config_validator' = IF out.result = "ok"
                           THEN update_validation(config_validator, out.T)
                           ELSE config_validator
    /\ has_unsaved_changes' = (has_unsaved_changes \/ out.result = "ok")
    /\ UNCHANGED <<disk_vars, svc_vars>>
    /\ last' = [op |-> "move", result |-> out.result, why |-> out.why]

\* the nodes of the subtree rooted at n
RECURSIVE Subtree(_, _)
Subtree(T, n) ==
  {n} \cup (IF IsGroup(T, n)
            THEN UNION {Subtree(T, T.nodes[n].items[i]) : i \in 1..Len(T.nodes[n].items)}
            ELSE {})

\* the objects a list loses when its row `row` is deleted are garbage
Forget(T, gone) == [T EXCEPT !.nodes = [n \in DOMAIN T.nodes \ gone |-> T.nodes[n]]]

\* TreePanel.delete_selected, after the user answered the confirmation `reply`
delete_selected(T, index, reply) ==
  IF index = InvalidIndex THEN [result |-> "return", why |-> "no selection", T |-> T]
  ELSE IF reply # "Yes" THEN [result |-> "return", why |-> "cancelled", T |-> T]
  ELSE
  LET parent_index == parent(T, index)
      parent_id == _get_parent_id(T, parent_index)
      row == RowOf(T, index)
      children == _get_children_list(T, parent_id)
      list == ListAt(T, children)
  IN IF row < Len(list)
     THEN [result |-> "ok", why |-> "deleted",
           T |-> Forget(SetList(T, children, PyDelSlice(list, row, row + 1)),
                        Subtree(T, list[row + 1]))]
     ELSE [result |-> "ok", why |-> "nothing deleted", T |-> T]

delete ==
  \E index \in Indexes, reply \in {"Yes", "No"}, via \in {"MainWindow", "TreePanel"} :
    \E out \in {delete_selected(Tree, index, reply)} :
    /\ nodes' = out.T.nodes
    /\ root_items' = out.T.root_items
    /\ uuidCount' = uuidCount
    \* self.model.changed.emit() -> MainWindow.on_data_changed
    /\ config_validator' = IF out.result = "ok"
                           THEN update_validation(config_validator, out.T)
                           ELSE config_validator
    \* the Edit menu's Delete is MainWindow.delete_item, which calls
    \* mark_unsaved() once delete_selected has returned; the Delete key and the
    \* context menu call TreePanel.delete_selected itself
    /\ has_unsaved_changes' = (has_unsaved_changes \/ out.result = "ok" \/ via = "MainWindow")
    /\ UNCHANGED <<disk_vars, svc_vars>>
    /\ last' = [op |-> "delete", result |-> out.result, why |-> out.why]

\* ----------------------------------------------------------------- duplicate
\* A call either returns a value or raises: [raised |-> "" or the exception, ...]
Returned(v) == [raised |-> "", value |-> v]
Raised(e) == [raised |-> e, value |-> None]

\* ConfigTreeModel.generate_id: str(uuid.uuid4()), in a module that never
\* imports uuid: the name lookup raises NameError
generate_id(c) == Raised("NameError")

\* self.root of ConfigTreeModel: no such attribute is ever set
model_root == Raised("AttributeError")

\* ConfigTreeModel.children_of: `parent_node is self.root` is evaluated first
children_of(T, parent_node) ==
  IF model_root.raised # "" THEN Raised(model_root.raised)
  ELSE IF parent_node = model_root.value THEN Returned(RootList)
  ELSE IF IsGroup(T, parent_node) THEN Returned(parent_node)
  ELSE Returned(Detached)

\* labels of the nodes of a list that have a label
sibling_labels(T, siblings) ==
  {T.nodes[siblings[i]].label :
     i \in {j \in 1..Len(siblings) : ~IsSeparator(T, siblings[j])}}

\* the while loop of unique_label: the first counter >= 2 whose label is free
RECURSIVE first_free(_, _, _)
first_free(desired, labels, counter) ==
  IF Label(desired.base, Append(desired.tail, NumTok(counter))) \in labels
  THEN first_free(desired, labels, counter + 1)
  ELSE counter

\* ConfigTreeModel.unique_label
unique_label(T, desired, parent_node) ==
  LET siblings == children_of(T, parent_node) IN
  IF siblings.raised # "" THEN Raised(siblings.raised)
  ELSE LET labels == sibling_labels(T, ListAt(T, siblings.value)) IN
       IF desired \notin labels THEN Returned(desired)
       ELSE Returned(Label(desired.base,
                           Append(desired.tail, NumTok(first_free(desired, labels, 2)))))

\* the base label of utils._add_copy_suffix, before the deduper:
\* re.search(r'\(copy(?:\s+(\d+))?\)$', label), then re.sub or f"{label} (copy)"
copy_suffixed(label) ==
  LET n == Len(label.tail) IN
  IF n > 0 /\ label.tail[n].k = "copy"
  THEN LET counter == (IF label.tail[n].n = 0 THEN 1 ELSE label.tail[n].n) + 1
       IN Label(label.base, [label.tail EXCEPT ![n] = CopyTok(counter)])
  ELSE Label(label.base, Append(label.tail, CopyTok(0)))

\* utils._add_copy_suffix with label_deduper = unique_label(., parent_node)
_add_copy_suffix(T, label, parent_node) ==
  unique_label(T, copy_suffixed(label), parent_node)

\* deepcopy(node) with _assign_ids: a copy of the subtree of n in new objects,
\* every copy given the next identifier; [T, ref, c] = heap, the copy, ids drawn
RECURSIVE copy_subtree(_, _, _)
RECURSIVE copy_children(_, _, _, _)
copy_subtree(T, n, c) ==
  LET ref == NewRef(T)
      T1 == Alloc(T, ref, [T.nodes[n] EXCEPT !.id = generate_node_id(c)])
  IN IF IsGroup(T, n)
     THEN LET kids == copy_children(T1, T.nodes[n].items, c + 1, <<>>) IN
          [T |-> [kids.T EXCEPT !.nodes[ref].items = kids.refs], ref |-> ref, c |-> kids.c]
     ELSE [T |-> T1, ref |-> ref, c |-> c + 1]

copy_children(T, items, c, done) ==
  IF items = <<>> THEN [T |-> T, refs |-> done, c |-> c]
  ELSE LET one == copy_subtree(T, Head(items), c) IN
       copy_children(one.T, Tail(items), one.c, Append(done, one.ref))

\* utils.clone_node(node, generate_id, lambda label: unique_label(label, parent_node));
\* _assign_ids starts with n.id = id_factory()
clone_node(T, node, c, parent_node) ==
  IF generate_id(c).raised # "" THEN [raised |-> generate_id(c).raised, T |-> T]
  ELSE LET cloned == copy_subtree(T, node, c) IN
       IF IsSeparator(T, node)
       THEN [raised |-> "", T |-> cloned.T, ref |-> cloned.ref, c |-> cloned.c]
       ELSE LET label == _add_copy_suffix(T, T.nodes[node].label, parent_node) IN
            IF label.raised # "" THEN [raised |-> label.raised, T |-> T]
            ELSE [raised |-> "",
                  T |-> [cloned.T EXCEPT !.nodes[cloned.ref].label = label.value],
                  ref |-> cloned.ref, c |-> cloned.c]

\* TreePanel.duplicate_selected (the later definition of the class);
\* [result, why, T, c] where c is the number of identifiers drawn
duplicate_selected(T, index, c) ==
  IF index = InvalidIndex THEN [result |-> "return", why |-> "no selection", T |-> T, c |-> c]
  ELSE
  LET parent_index == parent(T, index)
      current_row == RowOf(T, index)
      parent_node == IF parent_index # InvalidIndex THEN Returned(parent_index)
                     ELSE model_root
  IN IF parent_node.raised # ""
     THEN [result |-> "raised", why |-> parent_node.raised, T |-> T, c |-> c]
     ELSE
     LET new_node == clone_node(T, index, c, parent_node.value) IN
     IF new_node.raised # ""
     THEN [result |-> "raised", why |-> new_node.raised, T |-> T, c |-> c]
     ELSE
     LET children == children_of(new_node.T, parent_node.value) IN
     IF children.raised # ""
     THEN [result |-> "raised", why |-> children.raised, T |-> T, c |-> c]
     ELSE [result |-> "ok", why |-> "duplicated",
           T |-> SetList(new_node.T, children.value,
                         PyInsert(ListAt(new_node.T, children.value),
                                  current_row + 1, new_node.ref)),
           c |-> new_node.c]

duplicate ==
  \E index \in Indexes :
    \E out \in {duplicate_selected(Tree, index, uuidCount)} :
    /\ out.c <= MaxUuid
    /\ nodes' = out.T.nodes
    /\ root_items' = out.T.root_items
    /\ uuidCount' = out.c
    \* self.model.changed.emit(), where the handler gets that far
    /\ config_validator' = IF out.result = "ok"
                           THEN update_validation(config_validator, out.T)
                           ELSE config_validator
    /\ has_unsaved_changes' = (has_unsaved_changes \/ out.result = "ok")
    /\ UNCHANGED <<disk_vars, svc_vars>>
    /\ last' = [op |-> "duplicate", result |-> out.result, why |-> out.why]

\* ------------------------------------------------------- move up / move down
\* ConfigTreeModel._get_drag_range: the class defines _drag_range_for only
_get_drag_range(T, parent_id, row) == Raised("AttributeError")

\* TreePanel._move_node_to_position
_move_node_to_position(T, index, parent_index, target_row) ==
  LET parent_id == _get_parent_id(T, index)
      row == RowOf(T, index)
      range == _get_drag_range(T, parent_id, row)
  IN IF range.raised # "" THEN [result |-> "raised", why |-> range.raised, T |-> T]
     ELSE IF parent_index # InvalidIndex /\ IsSeparator(T, parent_index)
     THEN [result |-> "rejected", why |-> "separator", T |-> T]
     ELSE
     LET start == range.value[1]
         end == range.value[2]
         dst_parent_id == IF parent_index # InvalidIndex
                          THEN T.nodes[parent_index].id ELSE ROOT
         src_list == _get_children_list(T, parent_id)
         dst_list == _get_children_list(T, dst_parent_id)
         block == PySlice(ListAt(T, src_list), start, end)
         into_self == \E i \in 1..Len(block) : dst_parent_id = T.nodes[block[i]].id
         T1 == SetList(T, src_list, PyDelSlice(ListAt(T, src_list), start, end))
         row2 == IF parent_id = dst_parent_id /\ target_row > start
                 THEN target_row - (end - start) ELSE target_row
         T2 == SetList(T1, dst_list, PyInsertAll(ListAt(T1, dst_list), row2, block, 0))
     IN IF into_self THEN [result |-> "rejected", why |-> "self", T |-> T]
        ELSE [result |-> "ok", why |-> "moved", T |-> T2]

\* TreePanel._move_selected_up
_move_selected_up(T, index) ==
  IF index = InvalidIndex \/ RowOf(T, index) = 0
  THEN [result |-> "return", why |-> "boundary", T |-> T]
  ELSE _move_node_to_position(T, index, parent(T, index), RowOf(T, index) - 1)

\* TreePanel._move_selected_down
_move_selected_down(T, index) ==
  IF index = InvalidIndex THEN [result |-> "return", why |-> "boundary", T |-> T]
  ELSE
  LET parent_index == parent(T, index)
      max_row == IF parent_index # InvalidIndex
                 THEN (IF IsGroup(T, parent_index)
                       THEN Len(T.nodes[parent_index].items) - 1 ELSE 0)
                 ELSE Len(T.root_items) - 1
  IN IF RowOf(T, index) >= max_row
     THEN [result |-> "return", why |-> "boundary", T |-> T]
     ELSE _move_node_to_position(T, index, parent_index, RowOf(T, index) + 2)

move_up ==
  \E index \in Indexes :
    \E out \in {_move_selected_up(Tree, index)} :
    /\ nodes' = out.T.nodes
    /\ root_items' = out.T.root_items
    /\ uuidCount' = uuidCount
    \* self.model.changed.emit(), where the handler gets that far
    /\ config_validator' = IF out.result = "ok"
                           THEN update_validation(config_validator, out.T)
                           ELSE config_validator
    /\ has_unsaved_changes' = (has_unsaved_changes \/ out.result = "ok")
    /\ UNCHANGED <<disk_vars, svc_vars>>
    /\ last' = [op |-> "move_up", result |-> out.result, why |-> out.why]

move_down ==
  \E index \in Indexes :
    \E out \in {_move_selected_down(Tree, index)} :
    /\ nodes' = out.T.nodes
    /\ root_items' = out.T.root_items
    /\ uuidCount' = uuidCount
    \* self.model.changed.emit(), where the handler gets that far
    /\ config_validator' = IF out.result = "ok"
                           THEN update_validation(config_validator, out.T)
                           ELSE config_validator
    /\ has_unsaved_changes' = (has_unsaved_changes \/ out.result = "ok")
    /\ UNCHANGED <<disk_vars, svc_vars>>
    /\ last' = [op |-> "move_down", result |-> out.result, why |-> out.why]

\* ------------------------------------------------------------------ editor
\* what the item form can hold when a field changes: label and command are
\* stripped and non-empty (ItemNode's validators), env keys are non-empty
ItemForms ==
  { [label |-> Text("Build"), cmd |-> "make", terminal |-> TRUE, confirm |-> FALSE,
     env |-> [CC |-> "gcc"]],
    [label |-> Label("Build", <<CopyTok(0)>>), cmd |-> "make -j", terminal |-> FALSE,
     confirm |-> TRUE, env |-> [id |-> "7"]] }

\* ItemEditor.on_data_changed: the fields of the form are assigned to the item
edit_item ==
  \E n \in {m \in Live : nodes[m].type = "item"}, form \in ItemForms :
    /\ nodes' = [nodes EXCEPT ![n] = ItemNode(nodes[n].id, form.label, form.cmd,
                                              form.terminal, form.confirm, form.env)]
    \* self.data_changed.emit() -> MainWindow.on_data_changed
    /\ config_validator' = update_validation(config_validator,
                                             [nodes |-> nodes', root_items |-> root_items])
    /\ has_unsaved_changes' = TRUE
    /\ UNCHANGED <<root_items, uuidCount, disk_vars, svc_vars>>
    /\ last' = [op |-> "edit_item", result |-> "ok", why |-> "edited"]

\* ----------------------------------------------------------------- session
DefaultPath == Path("commands", ".yaml", 0)
OtherPath == Path("menu", ".yml", 0)
Paths == {DefaultPath, OtherPath}

\* MainWindow.save_config with config_path = path: save_yaml, then the
\* document is read back for original_yaml (the Config parsed there is dropped)
save_to(path) ==
  \E out \in {save_yaml(files, path, Tree, original_yaml, clock)} :
    /\ config_path' = path
    /\ files' = out.fs
    /\ original_yaml' = IF out.raised = "" THEN out.fs[path] ELSE original_yaml
    /\ last' = IF out.raised = ""
               THEN [op |-> "save", result |-> "ok", why |-> "saved"]
               ELSE [op |-> "save", result |-> "raised", why |-> out.raised]
    /\ has_unsaved_changes' = (has_unsaved_changes /\ out.raised # "")
    /\ UNCHANGED <<tree_vars, clock, svc_vars, config_validator>>

save_cancelled ==
  /\ last' = [op |-> "save", result |-> "return", why |-> "cancelled"]
  /\ UNCHANGED <<tree_vars, disk_vars, svc_vars, config_validator, has_unsaved_changes>>

\* MainWindow.save_config; `chosen` is the answer of the file dialog that
\* save_as_config shows when there is no config_path (NoPath: cancelled)
save_config ==
  \E chosen \in Paths \cup {NoPath} :
    IF config_path # NoPath THEN save_to(config_path)
    ELSE IF chosen # NoPath THEN save_to(chosen)
    ELSE save_cancelled

\* MainWindow.save_as_config
save_as_config ==
  \E chosen \in Paths \cup {NoPath} :
    IF chosen # NoPath THEN save_to(chosen) ELSE save_cancelled

\* MainWindow.load_config_file
load_config_file(path) ==
  \E out \in {load_yaml(files, path, uuidCount)} :
    /\ out.c <= MaxSessionIds
    /\ IF out.raised = ""
       THEN /\ nodes' = out.T.nodes
            /\ root_items' = out.T.root_items
            /\ uuidCount' = out.c
            /\ original_yaml' = out.original
            /\ config_path' = path
            /\ last' = [op |-> "load", result |-> "ok", why |-> "loaded"]
            /\ watch' = Watching(path)
            /\ config_validator' = update_validation(config_validator, out.T)
       \* except Exception: QMessageBox.critical
       ELSE /\ last' = [op |-> "load", result |-> "raised", why |-> out.raised]
            /\ watch' = [watch EXCEPT !.dialog = "none"]
            /\ UNCHANGED <<tree_vars, config_path, original_yaml, config_validator>>
    /\ UNCHANGED <<files, clock, sv, _saves, mono, rl_vars, has_unsaved_changes>>

\* MainWindow.open_config, with the path the file dialog answered
open_config == \E path \in Paths : load_config_file(path)

\* MainWindow.revert_config
revert_config == config_path # NoPath /\ load_config_file(config_path)

\* MainWindow.new_config, with unsaved changes discarded if there are any
new_config ==
  /\ nodes' = <<>>
  /\ root_items' = <<>>
  /\ config_path' = NoPath
  /\ original_yaml' = NoData
  /\ has_unsaved_changes' = FALSE
  /\ config_validator' = update_validation(config_validator, EmptyTree)
  /\ last' = [op |-> "new", result |-> "ok", why |-> "new"]
  /\ UNCHANGED <<uuidCount, files, clock, svc_vars>>

\* a second passes
tick ==
  /\ clock < MaxClock
  /\ clock' = clock + 1
  /\ last' = [op |-> "tick", result |-> "ok", why |-> "tick"]
  /\ UNCHANGED <<tree_vars, files, config_path, original_yaml, svc_vars, config_validator, has_unsaved_changes>>

\* ------------------------------------------------------------ SaveCoordinator
\* time.monotonic() counts half seconds: window_s = 2.0 and the 1.5 of end_save
DefaultWindow == 4
EndSaveWindow == 3

\* os.stat(path): the identity (st_ino, st_size, st_mtime_ns) of the file, which
\* is a new one whenever the file is written again; the content stands for it
stat(fs, path) ==
  IF exists(fs, path) THEN Returned(fs[path])
  ELSE [raised |-> "FileNotFoundError", value |-> NoData]

SaveWindow(until, ident) == [until |-> until, ident |-> ident]

\* inode, size and mtime_ns of a window are None until end_save
NoStat == Returned(NoData)

\* SaveCoordinator.begin_save
begin_save(saves, path, now, window_s) ==
  [p \in DOMAIN saves \cup {path} |->
     IF p = path THEN SaveWindow(now + window_s, NoStat) ELSE saves[p]]

\* SaveCoordinator.end_save
end_save(saves, path, now, fs) ==
  LET st == stat(fs, path) IN
  IF st.raised # "" THEN saves
  ELSE IF path \in DOMAIN saves
  THEN [saves EXCEPT ![path] = SaveWindow(now + EndSaveWindow, st)]
  ELSE saves

\* should_ignore_change with the comparison of the file's identity deciding
should_ignore_change_Strict(saves, path, now, fs) ==
  IF path \notin DOMAIN saves THEN [ret |-> FALSE, saves |-> saves]
  ELSE IF now > saves[path].until
  THEN [ret |-> FALSE, saves |-> [p \in DOMAIN saves \ {path} |-> saves[p]]]
  ELSE IF saves[path].ident = NoStat THEN [ret |-> TRUE, saves |-> saves]
  ELSE [ret |-> stat(fs, path) = saves[path].ident, saves |-> saves]

\* SaveCoordinator.should_ignore_change: [ret, saves] = the answer and _saves after
should_ignore_change(saves, path, now, fs) ==
  IF path \notin DOMAIN saves THEN [ret |-> FALSE, saves |-> saves]
  ELSE LET window == saves[path] IN
       IF now > window.until
       THEN [ret |-> FALSE, saves |-> [p \in DOMAIN saves \ {path} |-> saves[p]]]
       ELSE IF window.ident = NoStat THEN [ret |-> TRUE, saves |-> saves]
       ELSE LET st == stat(fs, path) IN
            IF st.raised = "" /\ st = window.ident THEN [ret |-> TRUE, saves |-> saves]
            ELSE IF st.raised # "" THEN [ret |-> TRUE, saves |-> saves]
            ELSE [ret |-> TRUE, saves |-> saves]

\* ConfigFileWatcher._on_file_changed for a change the FileWatcher reports
\* (_paused is 0: nothing calls pause): unless the coordinator says to ignore
\* it, MainWindow.on_external_file_change asks whether to reload
_on_file_changed ==
  /\ watch.pending # "none"
  /\ watch.dialog = "none"
  /\ sv.pc = "idle"
  /\ \E out \in {should_ignore_change(_saves, watch.path, mono, files)} :
       /\ _saves' = out.saves
       /\ watch' = [watch EXCEPT !.pending = "none",
                                 !.dialog = IF out.ret THEN "none" ELSE watch.pending]
       /\ last' = [op |-> "file_changed", result |-> IF out.ret THEN "ignored" ELSE "asked",
                   why |-> watch.pending]
  /\ UNCHANGED <<tree_vars, disk_vars, sv, mono, rl_vars, config_validator, has_unsaved_changes>>

\* MainWindow.on_external_file_change once the question is answered
on_external_file_change ==
  /\ watch.dialog # "none"
  /\ \E reply \in {"Yes", "No"} :
       IF reply = "Yes" THEN load_config_file(watch.path)
       ELSE /\ watch' = [watch EXCEPT !.dialog = "none"]
            /\ last' = [op |-> "file_changed", result |-> "kept", why |-> watch.dialog]
            /\ UNCHANGED <<tree_vars, disk_vars, sv, _saves, mono, rl_vars, config_validator, has_unsaved_changes>>

\* --------------------------------------------------------- save, step by step
\* a file that was opened for writing and does not hold a whole document yet
Partial == [kind |-> "partial"]

\* a second document with the stem of the default one
TwinPath == Path("commands", ".yml", 0)
SavePaths == Paths \cup {TwinPath}

\* documents as they may lie on disk (no identifiers): an empty one, one item,
\* and separators and groups nested in a group
SampleDocs ==
  { <<>>,
    <<[type |-> "item", label |-> Text("Build"), cmd |-> "make", terminal |-> FALSE,
       confirm |-> TRUE, env |-> [CC |-> "gcc"]]>>,
    <<[type |-> "separator"],
      [type |-> "group", label |-> Text("Tools"),
       items |-> <<[type |-> "item", label |-> Text("Build"), cmd |-> "make",
                    terminal |-> TRUE, confirm |-> FALSE, env |-> NoEnv],
                   [type |-> "group", label |-> Text("More"),
                    items |-> <<[type |-> "separator"]>>]>>]>> }

\* what the watcher has seen once this session wrote the watched file; `seen`:
\* whether the FileWatcher's backend reports this kind of write
own_write(w, path, seen) ==
  IF seen /\ path = w.path THEN [w EXCEPT !.pending = "own"] ELSE w

\* MainWindow.save_config / save_as_config call yaml_handler.save_yaml(path, ...);
\* save_yaml starts with create_backup(path), which raises for a missing path
sv_call ==
  \E path \in SavePaths :
    /\ sv.pc = "idle"
    /\ watch.dialog = "none"
    /\ config_path' = path
    /\ sv' = IF ~exists(files, path)
             THEN [NoSave EXCEPT !.pc = "raised", !.path = path,
                                 !.raised = "FileNotFoundError"]
             ELSE [NoSave EXCEPT !.pc = "backup_open", !.path = path,
                                 !.pre = files[path],
                                 !.backup_path = with_suffix(path, ".yaml.bak-", clock)]
    /\ last' = [op |-> "save", result |-> "called", why |-> "save_yaml"]
    /\ UNCHANGED <<tree_vars, files, clock, original_yaml, watch, _saves, mono, rl_vars, config_validator, has_unsaved_changes>>

\* a step of the call that changes the files to fs and goes on at pc
sv_goto(pc, fs) ==
  /\ sv' = [sv EXCEPT !.pc = pc]
  /\ files' = fs
  /\ UNCHANGED <<tree_vars, last, clock, config_path, original_yaml, watch, _saves, mono, rl_vars, config_validator, has_unsaved_changes>>

\* a step inside the try block fails: control goes to the except clause
sv_fail(step) ==
  /\ sv' = [sv EXCEPT !.pc = "except", !.fault = step]
  /\ UNCHANGED <<tree_vars, last, files, clock, config_path, original_yaml, watch,
                 _saves, mono, rl_vars, config_validator, has_unsaved_changes>>

\* create_backup: shutil.copy2(path, backup_path) opens the backup for writing ...
create_backup_open ==
  /\ sv.pc = "backup_open"
  /\ sv_goto("backup_copy", write_file(files, sv.backup_path, Partial))

\* ... and copies the document into it
create_backup_copy ==
  /\ sv.pc = "backup_copy"
  /\ sv_goto("dump", copy2(files, sv.path, sv.backup_path))

\* data = config.model_dump(); _remove_ids_recursive(data); _preserve_comments
sv_dump ==
  /\ sv.pc = "dump"
  /\ \E ok \in BOOLEAN :
       IF ok
       THEN /\ sv' = [sv EXCEPT !.pc = "open_temp",
                                !.data = Document(_remove_ids_recursive(
                                                    model_dump(Tree, root_items)))]
            /\ UNCHANGED <<tree_vars, last, files, clock, config_path, original_yaml,
                           watch, _saves, mono, rl_vars, config_validator, has_unsaved_changes>>
       ELSE sv_fail("serialization")

\* open(temp_path, 'w')
sv_open_temp ==
  /\ sv.pc = "open_temp"
  /\ \E ok \in BOOLEAN :
       IF ok THEN sv_goto("write_temp",
                          write_file(files, with_suffix(sv.path, ".tmp", 0), Partial))
       ELSE sv_fail("temp open")

\* self.yaml.dump(new_data, f); f.flush()
sv_write_temp ==
  /\ sv.pc = "write_temp"
  /\ \E ok \in BOOLEAN :
       IF ok THEN sv_goto("fsync",
                          write_file(files, with_suffix(sv.path, ".tmp", 0), sv.data))
       ELSE sv_fail("temp write")

\* os.fsync(f.fileno()), and the file is closed
sv_fsync ==
  /\ sv.pc = "fsync"
  /\ \E ok \in BOOLEAN :
       IF ok
       THEN /\ sv' = [sv EXCEPT !.pc = "move", !.synced = TRUE]
            /\ UNCHANGED <<tree_vars, last, files, clock, config_path, original_yaml,
                           watch, _saves, mono, rl_vars, config_validator, has_unsaved_changes>>
       ELSE sv_fail("fsync")

\* shutil.move(temp_path, path): a rename within the directory; return backup_path
sv_move ==
  /\ sv.pc = "move"
  /\ \E ok \in BOOLEAN, seen \in BOOLEAN :
       IF ok
       THEN /\ sv' = [sv EXCEPT !.pc = "returned"]
            /\ files' = move(files, with_suffix(sv.path, ".tmp", 0), sv.path)
            /\ watch' = own_write(watch, sv.path, seen)
            /\ UNCHANGED <<tree_vars, last, clock, config_path, original_yaml, _saves, mono, rl_vars, config_validator, has_unsaved_changes>>
       ELSE /\ ~seen
            /\ sv_fail("rename")

\* the file the except clause restores the target from
restore_source_Temp(call) == with_suffix(call.path, ".tmp", 0)

restore_source(call) == call.backup_path

\* except: if backup_path.exists(): shutil.copy2(backup_path, path), which opens
\* the target for writing ...
sv_restore_open ==
  /\ sv.pc = "except"
  /\ IF exists(files, restore_source(sv))
     THEN sv_goto("restore_copy", write_file(files, sv.path, Partial))
     ELSE sv_goto("raise", files)

\* ... and copies the backup into it
sv_restore_copy ==
  /\ sv.pc = "restore_copy"
  /\ sv' = [sv EXCEPT !.pc = "raise"]
  /\ files' = copy2(files, restore_source(sv), sv.path)
  /\ \E seen \in BOOLEAN : watch' = own_write(watch, sv.path, seen)
  /\ UNCHANGED <<tree_vars, last, clock, config_path, original_yaml, _saves, mono, rl_vars, config_validator, has_unsaved_changes>>

\* raise ValueError(f"Failed to save YAML to {path}: {e}")
sv_raise ==
  /\ sv.pc = "raise"
  /\ sv' = [sv EXCEPT !.pc = "raised", !.raised = "ValueError"]
  /\ UNCHANGED <<tree_vars, last, files, clock, config_path, original_yaml, watch,
                 _saves, mono, rl_vars, config_validator, has_unsaved_changes>>

\* back in MainWindow.save_config: the document is read back for original_yaml,
\* or the exception is caught and reported
sv_done ==
  /\ sv.pc \in {"returned", "raised"}
  /\ sv' = NoSave
  /\ original_yaml' = IF sv.pc = "returned"
                      THEN load_yaml(files, sv.path, uuidCount).original
                      ELSE original_yaml
  /\ last' = IF sv.pc = "returned"
             THEN [op |-> "save", result |-> "ok", why |-> "saved"]
             ELSE [op |-> "save", result |-> "raised", why |-> sv.raised]
  /\ has_unsaved_changes' = (has_unsaved_changes /\ sv.pc # "returned")
  /\ UNCHANGED <<tree_vars, files, clock, config_path, watch, _saves, mono, rl_vars,
                 config_validator>>

\* the process dies in the middle of a save; the files stay as they are
crash ==
  /\ sv.pc \notin {"idle", "crashed", "returned", "raised"}
  /\ sv' = [sv EXCEPT !.pc = "crashed"]
  /\ UNCHANGED <<tree_vars, last, files, clock, config_path, original_yaml, watch,
                 _saves, mono, rl_vars, config_validator, has_unsaved_changes>>

Next ==
  \/ add_item
  \/ add_group
  \/ add_separator
  \/ drag_drop
  \/ delete
  \/ duplicate
  \/ move_up
  \/ move_down

Spec == Init /\ [][Next]_vars

\* MainWindow.__init__ in a directory that may hold the default document
InitSession ==
  \E disk \in {NoFiles, write_file(NoFiles, DefaultPath, Document(<<>>))} :
    /\ files = disk
    /\ nodes = <<>>
    /\ root_items = <<>>
    /\ uuidCount = 0
    /\ last = NoOp
    /\ clock = 1
    /\ config_path = IF exists(disk, DefaultPath) THEN DefaultPath ELSE NoPath
    /\ original_yaml = IF exists(disk, DefaultPath) THEN disk[DefaultPath] ELSE NoData
    /\ SvcInit(IF exists(disk, DefaultPath) THEN DefaultPath ELSE NoPath)
    /\ config_validator = update_validation(NoFindings, Tree)
    /\ has_unsaved_changes = FALSE

\* an editing session with its document: build, edit, save, load
NextSession ==
  \/ uuidCount < MaxSessionNodes /\ add_item
  \/ uuidCount < MaxSessionNodes /\ add_group
  \/ uuidCount < MaxSessionNodes /\ add_separator
  \/ edit_item
  \/ save_config
  \/ save_as_config
  \/ open_config
  \/ revert_config
  \/ new_config
  \/ tick

SpecSession == InitSession /\ [][NextSession]_vars

\* a session on the default document, the tree as loaded from a document
InitSave ==
  \E doc \in SampleDocs, on_disk \in SampleDocs, twin \in BOOLEAN :
    \E loaded \in {model_validate(EmptyTree, doc, 0, <<>>)} :
    /\ nodes = loaded.T.nodes
    /\ root_items = loaded.refs
    /\ uuidCount = loaded.c
    /\ last = NoOp
    /\ files = IF twin
               THEN write_file(write_file(NoFiles, DefaultPath, Document(on_disk)),
                               TwinPath, Document(<<>>))
               ELSE write_file(NoFiles, DefaultPath, Document(on_disk))
    /\ clock = 1
    /\ config_path = DefaultPath
    /\ original_yaml = Document(on_disk)
    /\ SvcInit(DefaultPath)
    /\ config_validator = update_validation(NoFindings, Tree)
    /\ has_unsaved_changes = FALSE

NextSave ==
  \/ sv_call
  \/ create_backup_open
  \/ create_backup_copy
  \/ sv_dump
  \/ sv_open_temp
  \/ sv_write_temp
  \/ sv_fsync
  \/ sv_move
  \/ sv_restore_open
  \/ sv_restore_copy
  \/ sv_raise
  \/ sv_done
  \/ crash
  \/ _on_file_changed
  \/ on_external_file_change
  \/ tick

SpecSave == InitSave /\ [][NextSave]_vars

\* ----------------------------------------- the SaveCoordinator and its callers
MaxMono == 6

\* the module's save_coordinator, just constructed, beside a directory with the
\* default document
InitCoordinator ==
  /\ nodes = <<>>
  /\ root_items = <<>>
  /\ uuidCount = 0
  /\ last = NoOp
  /\ files = write_file(NoFiles, DefaultPath, Document(<<>>))
  /\ clock = 1
  /\ config_path = NoPath
  /\ original_yaml = NoData
  /\ SvcInit(NoPath)
  /\ config_validator = update_validation(NoFindings, Tree)
  /\ has_unsaved_changes = FALSE

\* a caller's save_coordinator.begin_save(path)
call_begin_save ==
  \E path \in Paths :
    /\ _saves' = begin_save(_saves, path, mono, DefaultWindow)
    /\ last' = [op |-> "begin_save", result |-> "None", why |-> path.stem]
    /\ UNCHANGED <<tree_vars, disk_vars, sv, watch, mono, rl_vars, config_validator, has_unsaved_changes>>

\* a caller's save_coordinator.end_save(path)
call_end_save ==
  \E path \in Paths :
    /\ _saves' = end_save(_saves, path, mono, files)
    /\ last' = [op |-> "end_save", result |-> "None", why |-> path.stem]
    /\ UNCHANGED <<tree_vars, disk_vars, sv, watch, mono, rl_vars, config_validator, has_unsaved_changes>>

\* a caller's save_coordinator.should_ignore_change(path)
call_should_ignore_change ==
  \E path \in Paths :
    \E out \in {should_ignore_change(_saves, path, mono, files)} :
      /\ _saves' = out.saves
      /\ last' = [op |-> "should_ignore_change",
                  result |-> IF out.ret THEN "True" ELSE "False", why |-> path.stem]
      /\ UNCHANGED <<tree_vars, disk_vars, sv, watch, mono, rl_vars, config_validator, has_unsaved_changes>>

\* any program writes a file of the directory, or removes it
file_written ==
  \E path \in Paths, doc \in SampleDocs :
    /\ files' = write_file(files, path, Document(doc))
    /\ last' = [op |-> "write", result |-> "ok", why |-> path.stem]
    /\ UNCHANGED <<tree_vars, clock, config_path, original_yaml, svc_vars, config_validator, has_unsaved_changes>>

file_removed ==
  \E path \in Paths :
    /\ exists(files, path)
    /\ files' = remove_file(files, path)
    /\ last' = [op |-> "remove", result |-> "ok", why |-> path.stem]
    /\ UNCHANGED <<tree_vars, clock, config_path, original_yaml, svc_vars, config_validator, has_unsaved_changes>>

\* another process leaves something that is not a configuration at the path
file_garbled ==
  \E path \in Paths :
    /\ files' = write_file(files, path, Malformed)
    /\ last' = [op |-> "garble", result |-> "ok", why |-> path.stem]
    /\ UNCHANGED <<tree_vars, clock, config_path, original_yaml, svc_vars, config_validator, has_unsaved_changes>>

\* time.monotonic() advances by half a second
mono_tick ==
  /\ mono < MaxMono
  /\ mono' = mono + 1
  /\ last' = [op |-> "tick", result |-> "ok", why |-> "monotonic"]
  /\ UNCHANGED <<tree_vars, disk_vars, sv, watch, _saves, rl_vars, config_validator, has_unsaved_changes>>

NextCoordinator ==
  \/ call_begin_save
  \/ call_end_save
  \/ call_should_ignore_change
  \/ file_written
  \/ file_removed
  \/ mono_tick

SpecCoordinator == InitCoordinator /\ [][NextCoordinator]_vars

\* ------------------------------------------------------------ reload protocol
\* time in half seconds: timeout_ms = 500, subprocess.run(timeout=2),
\* time.sleep(1) of `trayrunner --reload`, GLib.timeout_add(2000, check_reload)
SocketTimeout == 1
CliTimeout == 4
ReloadSleep == 2
TriggerPeriod == 4

\* ~/.local/state/trayrunner/reload.sock and reload.trigger
SockPath == Path("reload", ".sock", 0)
TriggerFile == Path("reload", ".trigger", 0)
Socket == [kind |-> "socket"]
Trigger == [kind |-> "trigger"]

\* the tray process once TrayRunner.run has set its timer
Tray(timer) == [running |-> TRUE, timer |-> timer, reloaded |-> FALSE]

\* f"socket: {msg}; CLI: {msg_cli}", as the parts it is made of
both_failed(msg, msg_cli) == <<"socket: ", msg, "; CLI: ", msg_cli>>

\* reload_trayrunner, from the two attempts' pairs to the pair it returns
reload_result(ok, msg, ok_cli, msg_cli) ==
  IF ok THEN <<TRUE, <<msg>>>>
  ELSE IF ok_cli THEN <<TRUE, <<msg_cli>>>>
  ELSE <<FALSE, both_failed(msg, msg_cli)>>

\* the call r returns, with the pairs of the attempts it made
returns(r, ok, msg, ok_cli, msg_cli) ==
  [r EXCEPT !.pc = "done", !.ok = ok, !.msg = msg, !.ok_cli = ok_cli,
            !.msg_cli = msg_cli, !.wait = 0,
            !.result = reload_result(ok, msg, ok_cli, msg_cli)]

\* the socket attempt of the call r failed with msg: on to the CLI attempt
socket_failed(r, msg) == [r EXCEPT !.pc = "cli", !.ok = FALSE, !.msg = msg, !.wait = 0]

\* reload_trayrunner is called: by MainWindow.reload_trayrunner if
\* reload_manager.can_reload() (the socket exists), which else only warns; or
\* directly (try_reload)
\* QStandardPaths.writableLocation(QStandardPaths.AppDataLocation) in the
\* editor's process: empty where Qt finds no writable location, else the data
\* directory of organization "TrayRunner", application "TrayRunner Config
\* Editor". A path is the sequence of its components.
AppDataLocations ==
  {<<>>, <<"~", ".local", "share", "TrayRunner", "TrayRunner Config Editor">>}

\* reloader._sock_path
_sock_path(location) ==
  (IF location # <<>> THEN location ELSE <<"~", ".local", "state", "trayrunner">>)
    \o <<"reload.sock">>

\* ReloadManager.is_trayrunner_running with a constant answer
is_trayrunner_running_Always(fs) == TRUE

\* ReloadManager.is_trayrunner_running: os.path.exists(_sock_path())
is_trayrunner_running(fs) == exists(fs, SockPath)

\* ReloadManager.can_reload
can_reload(fs) == is_trayrunner_running(fs)

call_reload ==
  /\ reload.pc = "idle"
  /\ \E via \in {"MainWindow", "try_reload"}, location \in AppDataLocations :
       LET r == [NoReload EXCEPT !.via = via, !.location = location,
                                 !.checked = IF via = "MainWindow"
                                             THEN _sock_path(location) ELSE <<>>]
       IN reload' = IF via = "MainWindow" /\ ~can_reload(files)
                    THEN [r EXCEPT !.pc = "warned"]
                    ELSE [r EXCEPT !.pc = "socket"]
  /\ tray' = [tray EXCEPT !.reloaded = FALSE]
  /\ UNCHANGED <<tree_vars, last, disk_vars, sv, watch, _saves, mono, cli, config_validator, has_unsaved_changes,
                 _lock, threads>>

\* _reload_via_socket: os.path.exists(sock_path), connectToServer
_reload_via_socket ==
  /\ reload.pc = "socket"
  /\ LET r == [reload EXCEPT !.socket_attempts = @ + 1,
                             !.connected = _sock_path(reload.location)] IN
     reload' = IF ~exists(files, SockPath) THEN socket_failed(r, "socket not found")
               ELSE [r EXCEPT !.pc = "waitForConnected", !.wait = 0]
  /\ UNCHANGED <<tree_vars, last, disk_vars, sv, watch, _saves, mono, cli, tray, config_validator, has_unsaved_changes,
                 _lock, threads>>

\* waitForConnected(timeout_ms) answers True: a server accepted; RELOAD is sent
socket_connected ==
  /\ reload.pc = "waitForConnected"
  /\ reload' = [reload EXCEPT !.pc = "waitForReadyRead", !.wait = 0]
  /\ UNCHANGED <<tree_vars, last, disk_vars, sv, watch, _saves, mono, cli, tray, config_validator, has_unsaved_changes,
                 _lock, threads>>

\* waitForConnected answers False: nobody listens, or timeout_ms have passed
socket_connect_timeout ==
  /\ reload.pc = "waitForConnected"
  /\ reload' = socket_failed(reload, "connect timeout")
  /\ UNCHANGED <<tree_vars, last, disk_vars, sv, watch, _saves, mono, cli, tray, config_validator, has_unsaved_changes,
                 _lock, threads>>

\* waitForReadyRead(timeout_ms) answers True and the response is read: json
\* with ok, json without, or bytes json.loads rejects
socket_response ==
  /\ reload.pc = "waitForReadyRead"
  /\ \E response \in {"ok", "not ok", "malformed"} :
       reload' = IF response = "ok"
                 THEN returns(reload, TRUE, "reloaded via socket", FALSE, "")
                 ELSE IF response = "not ok"
                 THEN socket_failed(reload, "tray reload failed")
                 ELSE socket_failed(reload, "bad response")
  /\ UNCHANGED <<tree_vars, last, disk_vars, sv, watch, _saves, mono, cli, tray, config_validator, has_unsaved_changes,
                 _lock, threads>>

\* waitForReadyRead answers False after timeout_ms
socket_read_timeout ==
  /\ reload.pc = "waitForReadyRead"
  /\ reload.wait = SocketTimeout
  /\ reload' = socket_failed(reload, "no response from tray")
  /\ UNCHANGED <<tree_vars, last, disk_vars, sv, watch, _saves, mono, cli, tray, config_validator, has_unsaved_changes,
                 _lock, threads>>

\* the except clauses of _reload_via_cli, with the exception let through
_reload_via_cli_except_Uncaught(e) == Raised(e)

\* the except clauses of _reload_via_cli
_reload_via_cli_except(e) ==
  IF e = "TimeoutExpired" THEN Returned(<<FALSE, "CLI reload timeout">>)
  ELSE Returned(<<FALSE, "CLI reload error">>)

\* an exception is raised inside the try block of _reload_via_cli, in the call r
cli_raised(r, e) ==
  LET x == _reload_via_cli_except(e) IN
  IF x.raised # "" THEN [r EXCEPT !.pc = "raised", !.raised = x.raised, !.wait = 0]
  ELSE returns(r, FALSE, r.msg, x.value[1], x.value[2])

\* _reload_via_cli: shutil.which("trayrunner"), then subprocess.run starts
\* [exe, "--reload"] or fails to
_reload_via_cli ==
  /\ reload.pc = "cli"
  /\ LET r == [reload EXCEPT !.cli_attempts = @ + 1] IN
     \E found \in {"none", "not executable", "exe"} :
       /\ reload' = IF found = "none"
                    THEN returns(r, FALSE, r.msg, FALSE, "trayrunner not found on PATH")
                    ELSE IF found = "not executable" THEN cli_raised(r, "OSError")
                    ELSE [r EXCEPT !.pc = "subprocess.run", !.wait = 0]
       /\ cli' = IF found = "exe" THEN [NoCli EXCEPT !.pc = "main"] ELSE cli
  /\ UNCHANGED <<tree_vars, last, disk_vars, sv, watch, _saves, mono, tray, config_validator, has_unsaved_changes,
                 _lock, threads>>

\* subprocess.run returns the finished process: (proc.returncode == 0, msg)
subprocess_exited ==
  /\ reload.pc = "subprocess.run"
  /\ cli.pc = "exited"
  /\ reload' = returns(reload, FALSE, reload.msg, cli.returncode = 0, cli.stdout)
  /\ UNCHANGED <<tree_vars, last, disk_vars, sv, watch, _saves, mono, cli, tray, config_validator, has_unsaved_changes,
                 _lock, threads>>

\* subprocess.run kills the process after timeout seconds: TimeoutExpired
subprocess_timeout ==
  /\ reload.pc = "subprocess.run"
  /\ cli.pc # "exited"
  /\ reload.wait = CliTimeout
  /\ reload' = cli_raised(reload, "TimeoutExpired")
  /\ cli' = [cli EXCEPT !.pc = "killed"]
  /\ UNCHANGED <<tree_vars, last, disk_vars, sv, watch, _saves, mono, tray, config_validator, has_unsaved_changes,
                 _lock, threads>>

\* the caller has the pair (MainWindow shows its message) or the exception
reload_done ==
  /\ reload.pc \in {"done", "warned", "raised"}
  /\ reload' = NoReload
  /\ UNCHANGED <<tree_vars, last, disk_vars, sv, watch, _saves, mono, cli, tray, config_validator, has_unsaved_changes,
                 _lock, threads>>

\* main() of `trayrunner --reload`: reload_trigger_file.write_text(...), or the
\* exception that sends it to sys.exit(1)
main_write_trigger ==
  /\ cli.pc = "main"
  /\ \E ok \in BOOLEAN :
       IF ok
       THEN /\ files' = write_file(files, TriggerFile, Trigger)
            /\ cli' = [cli EXCEPT !.pc = "sleep", !.sleep = ReloadSleep, !.wrote = TRUE]
       ELSE /\ files' = files
            /\ cli' = [cli EXCEPT !.pc = "exited", !.returncode = 1,
                                  !.stdout = "Failed to send reload signal"]
  /\ UNCHANGED <<tree_vars, last, clock, config_path, original_yaml, sv, watch, _saves,
                 mono, reload, tray, config_validator, has_unsaved_changes,
                 _lock, threads>>

\* main() after time.sleep(1): sys.exit(0) if the trigger file is gone, else 1
main_check_trigger ==
  /\ cli.pc = "sleep"
  /\ cli.sleep = 0
  /\ cli' = IF ~exists(files, TriggerFile)
            THEN [cli EXCEPT !.pc = "exited", !.returncode = 0,
                             !.stdout = "Configuration reloaded successfully"]
            ELSE [cli EXCEPT !.pc = "exited", !.returncode = 1,
                             !.stdout = "TrayRunner may not be running or failed to reload"]
  /\ UNCHANGED <<tree_vars, last, disk_vars, sv, watch, _saves, mono, reload, tray, config_validator, has_unsaved_changes,
                 _lock, threads>>

\* the tray's timer fires: check_reload calls TrayRunner.check_reload_trigger,
\* which unlinks the trigger file if there is one and calls reload_config
check_reload ==
  /\ tray.running
  /\ tray.timer = 0
  /\ IF exists(files, TriggerFile)
     THEN /\ files' = remove_file(files, TriggerFile)
          /\ tray' = [tray EXCEPT !.timer = TriggerPeriod, !.reloaded = TRUE]
          /\ cli' = [cli EXCEPT !.handled = cli.wrote]
     ELSE /\ files' = files
          /\ tray' = [tray EXCEPT !.timer = TriggerPeriod]
          /\ cli' = cli
  /\ UNCHANGED <<tree_vars, last, clock, config_path, original_yaml, sv, watch, _saves,
                 mono, reload, config_validator, has_unsaved_changes,
                 _lock, threads>>

\* half a second passes, unless something is due now: a step of the call that
\* is not a wait, a timeout, the end of the sleep, the tray's timer
half_second ==
  /\ reload.pc \in {"idle", "waitForConnected", "waitForReadyRead", "subprocess.run"}
  /\ reload.pc \in {"waitForConnected", "waitForReadyRead"} => reload.wait < SocketTimeout
  /\ reload.pc = "subprocess.run" => (reload.wait < CliTimeout /\ cli.pc # "exited")
  /\ cli.pc = "sleep" => cli.sleep > 0
  /\ tray.running => tray.timer > 0
  /\ reload' = IF reload.pc = "idle" THEN reload ELSE [reload EXCEPT !.wait = @ + 1]
  /\ cli' = IF cli.pc = "sleep" THEN [cli EXCEPT !.sleep = @ - 1] ELSE cli
  /\ tray' = IF tray.running THEN [tray EXCEPT !.timer = @ - 1] ELSE tray
  /\ UNCHANGED <<tree_vars, last, disk_vars, sv, watch, _saves, mono, config_validator, has_unsaved_changes,
                 _lock, threads>>

\* an editor session and maybe a tray process, the latter somewhere in its
\* timer's period; a reload socket exists if something made one
InitReload ==
  \E socket \in BOOLEAN, t \in {NoTray} \cup {Tray(timer) : timer \in 1..TriggerPeriod} :
    /\ nodes = <<>>
    /\ root_items = <<>>
    /\ uuidCount = 0
    /\ last = NoOp
    /\ files = IF socket THEN write_file(NoFiles, SockPath, Socket) ELSE NoFiles
    /\ clock = 1
    /\ config_path = NoPath
    /\ original_yaml = NoData
    /\ sv = NoSave
    /\ watch = Watching(NoPath)
    /\ _saves = NoWindows
    /\ mono = 0
    /\ reload = NoReload
    /\ cli = NoCli
    /\ tray = t
    /\ _lock = Unlocked
    /\ threads = NoCalls
    /\ config_validator = update_validation(NoFindings, Tree)
    /\ has_unsaved_changes = FALSE

NextReload ==
  \/ call_reload
  \/ _reload_via_socket
  \/ socket_connected
  \/ socket_connect_timeout
  \/ socket_response
  \/ socket_read_timeout
  \/ _reload_via_cli
  \/ subprocess_exited
  \/ subprocess_timeout
  \/ reload_done
  \/ main_write_trigger
  \/ main_check_trigger
  \/ check_reload
  \/ half_second

\* ------------------------------------------------------------ loading
\* a session in which documents are opened and reverted while other
\* processes write, spoil and remove the files
NextLoad ==
  \/ uuidCount < MaxSessionNodes /\ add_item
  \/ uuidCount < MaxSessionNodes /\ add_group
  \/ open_config
  \/ revert_config
  \/ file_written
  \/ file_garbled
  \/ file_removed

SpecLoad == InitSession /\ [][NextLoad]_vars

\* the processes are scheduled and time passes: the call in progress takes its
\* next step, the subprocess and the tray's timer run
SpecReload ==
  /\ InitReload
  /\ [][NextReload]_vars
  /\ WF_vars(half_second)
  /\ WF_vars(_reload_via_socket \/ socket_connect_timeout \/ socket_read_timeout
             \/ _reload_via_cli \/ subprocess_exited \/ subprocess_timeout
             \/ reload_done)
  /\ WF_vars(main_write_trigger \/ main_check_trigger)
  /\ WF_vars(check_reload)
\* ===================================================================== claims
\* how often node n occurs in the lists of the heap
Occurrences(T, n) ==
  Cardinality({<<ref, i>> \in AllLists(T) \X (1..Cardinality(DOMAIN T.nodes)) :
                 i <= Len(ListAt(T, ref)) /\ ListAt(T, ref)[i] = n})

\* the nodes reachable from the set S through child lists
RECURSIVE ReachableFrom(_, _)
ReachableFrom(T, S) ==
  LET S2 == S \cup UNION {SeqToSet(T.nodes[g].items) :
                            g \in {m \in S : T.nodes[m].type = "group"}}
  IN IF S2 = S THEN S ELSE ReachableFrom(T, S2)

\* C1: a rejected Move (refused by canDropMimeData, or by dropMimeData's
\* drop-into-itself test) leaves every list and every node as it was
C1_RejectedMoveUnchanged ==
  [][(last'.op = "move" /\ last'.result = "rejected")
       => (nodes' = nodes /\ root_items' = root_items)]_vars

\* a group was dragged onto one of its own children and dropMimeData refused
C1_Witness ==
  /\ last.op = "move" /\ last.result = "rejected" /\ last.why = "dropMimeData"
  /\ \E g \in Live : IsGroup(Tree, g) /\ nodes[g].items # <<>>
\* the tree is a forest: every node sits in exactly one list, once, and all
\* nodes hang below the root list
Forest(T) ==
  /\ \A n \in DOMAIN T.nodes : Occurrences(T, n) = 1
  /\ ReachableFrom(T, SeqToSet(T.root_items)) = DOMAIN T.nodes

\* C2: the tree is a forest after any sequence of operations, and a Move of a
\* Group into itself or into a Group among its descendants is rejected
C2_ForestAndCyclicMoveRejected ==
  /\ Forest(Tree)
  /\ \A g \in Live, d \in Live, row \in -1..MaxRow :
       (IsGroup(Tree, g) /\ IsGroup(Tree, d) /\ d \in Subtree(Tree, g))
         => drop_gesture(Tree, g, d, row).result = "rejected"

\* the row after the block that starts at row r: for a separator the row of the
\* next separator of the list or the length of the list, else r + 1
BlockEnd(T, list, r) ==
  IF ~IsSeparator(T, list[r + 1]) THEN r + 1
  ELSE LET later == {e \in (r + 1)..(Len(list) - 1) : IsSeparator(T, list[e + 1])}
       IN IF later = {} THEN Len(list)
          ELSE CHOOSE e \in later : \A f \in later : e <= f

\* `block` lies in `list` from row k on, in order
BlockAt(list, block, k) ==
  /\ k + Len(block) <= Len(list)
  /\ \A i \in 1..Len(block) : list[k + i] = block[i]

Without(list, S) == SelectSeq(list, LAMBDA x : x \notin S)

\* C3: the block dragged with a separator at row r is rows [r, e) of its own
\* sibling list (e the next separator or the list end), a single row for
\* another node; after the move the block is contiguous and in order at its
\* destination, and the other siblings of the source list keep their order
C3_SeparatorBlockMove ==
  \A index \in Live, parent_index \in Indexes, row \in -1..MaxRow :
    LET holder == HolderOf(Tree, index)
        list == ListAt(Tree, holder)
        r == RowOf(Tree, index)
        e == BlockEnd(Tree, list, r)
        block == PySlice(list, r, e)
        payload == mimeData(Tree, index)
        out == drop_gesture(Tree, index, parent_index, row)
    IN /\ _get_children_list(Tree, payload.src_parent) = holder
       /\ payload.start = r
       /\ payload.end = e
       /\ out.result = "ok" =>
            /\ \E ref \in AllLists(out.T) : \E k \in 0..Len(ListAt(out.T, ref)) :
                 BlockAt(ListAt(out.T, ref), block, k)
            /\ Without(ListAt(out.T, holder), SeqToSet(block))
                 = Without(list, SeqToSet(block))

\* C4: a Move puts the block into the child list of the destination the caller
\* named (a Group, or the root list) and into no other list
C4_MoveIntoNamedDestination ==
  \A index \in Live, parent_index \in Indexes, row \in -1..MaxRow :
    LET payload == mimeData(Tree, index)
        block == PySlice(ListAt(Tree, _get_children_list(Tree, payload.src_parent)),
                         payload.start, payload.end)
        D == IF parent_index = InvalidIndex THEN RootList ELSE parent_index
        out == drop_gesture(Tree, index, parent_index, row)
    IN (/\ parent_index = InvalidIndex \/ IsGroup(Tree, parent_index)
        /\ \A i \in 1..Len(block) : parent_index \notin Subtree(Tree, block[i])
        /\ block # <<>>
        /\ out.result = "ok")
       => /\ block[1] \in SeqToSet(ListAt(out.T, D))
          /\ \A ref \in AllLists(out.T) \ {D} :
               SeqToSet(ListAt(out.T, ref)) \subseteq SeqToSet(ListAt(Tree, ref))

\* the identifiers of a set of nodes
IdsOf(T, S) == {T.nodes[n].id : n \in S}

\* C5: Duplicate of a labelled node yields a copy whose label no other sibling
\* of the destination list has, and whose subtree carries identifiers found
\* nowhere else in the tree
C5_DuplicateDistinct ==
  \A index \in {n \in Live : ~IsSeparator(Tree, n)} :
    LET out == duplicate_selected(Tree, index, uuidCount)
        holder == HolderOf(Tree, index)
        r == RowOf(Tree, index)
        list2 == ListAt(out.T, holder)
    IN /\ out.result = "ok"
       /\ Len(list2) = Len(ListAt(Tree, holder)) + 1
       /\ list2[r + 2] \notin Live
       /\ \A i \in 1..Len(list2) :
            (i # r + 2 /\ ~IsSeparator(out.T, list2[i]))
              => out.T.nodes[list2[i]].label # out.T.nodes[list2[r + 2]].label
       /\ LET copies == Subtree(out.T, list2[r + 2]) IN
          /\ IdsOf(out.T, copies) \cap IdsOf(out.T, DOMAIN out.T.nodes \ copies) = {}
          /\ Cardinality(IdsOf(out.T, copies)) = Cardinality(copies)

\* the label the copy is to get: "(copy)" appended, or the trailing copy
\* counter raised, then the first free " k" (k >= 2) appended if a sibling
\* already has that label
C6_Resolved(want, labels, k) ==
  IF want \notin labels THEN want
  ELSE Label(want.base,
             Append(want.tail,
                    NumTok(CHOOSE j \in k..(k + Cardinality(labels)) :
                             /\ Label(want.base, Append(want.tail, NumTok(j))) \notin labels
                             /\ \A i \in k..(j - 1) :
                                  Label(want.base, Append(want.tail, NumTok(i))) \in labels)))

C6_Expected(label, labels) ==
  LET n == Len(label.tail)
      want == IF n = 0 \/ label.tail[n].k # "copy"
              THEN Label(label.base, Append(label.tail, CopyTok(0)))
              ELSE IF label.tail[n].n = 0
              THEN Label(label.base, [label.tail EXCEPT ![n] = CopyTok(2)])
              ELSE Label(label.base, [label.tail EXCEPT ![n] = CopyTok(label.tail[n].n + 1)])
  IN C6_Resolved(want, labels, 2)

\* C6: Duplicate gives the copy the rewritten label ("(copy)", "(copy 2)",
\* "(copy N+1)", then made unique among the siblings); a Separator is copied
\* as a Separator
C6_DuplicateLabel ==
  \A index \in Live :
    LET out == duplicate_selected(Tree, index, uuidCount)
        holder == HolderOf(Tree, index)
        list == ListAt(Tree, holder)
        r == RowOf(Tree, index)
        list2 == ListAt(out.T, holder)
    IN /\ out.result = "ok"
       /\ Len(list2) > r + 1
       /\ list2[r + 2] \notin Live
       /\ IF IsSeparator(Tree, index) THEN IsSeparator(out.T, list2[r + 2])
          ELSE out.T.nodes[list2[r + 2]].label
                 = C6_Expected(nodes[index].label, sibling_labels(Tree, list))

\* C7: Duplicate of the node at row r puts the copy at row r + 1 of the same
\* list; the list grows by one and nothing else in the tree changes
C7_DuplicateInsertedAfterSource ==
  \A index \in Live :
    LET out == duplicate_selected(Tree, index, uuidCount)
        holder == HolderOf(Tree, index)
        list == ListAt(Tree, holder)
        r == RowOf(Tree, index)
        list2 == ListAt(out.T, holder)
    IN /\ Len(list2) = Len(list) + 1
       /\ list2[r + 2] \notin Live
       /\ SubSeq(list2, 1, r + 1) \o SubSeq(list2, r + 3, Len(list2)) = list
       /\ \A n \in Live \ {holder} : out.T.nodes[n] = nodes[n]
       /\ holder # RootList => out.T.root_items = root_items

IdsDistinct(N) == \A a, b \in DOMAIN N : a # b => N[a].id # N[b].id

Creators == {"add_item", "add_group", "add_separator", "duplicate", "load"}

RECURSIVE Shape(_, _)
Shape(T, items) ==
  [i \in 1..Len(items) |->
     LET n == T.nodes[items[i]] IN
     IF n.type = "group"
     THEN [type |-> "group", label |-> n.label, items |-> Shape(T, n.items)]
     ELSE IF n.type = "item"
     THEN [type |-> "item", label |-> n.label, cmd |-> n.cmd, terminal |-> n.terminal,
           confirm |-> n.confirm, env |-> n.env]
     ELSE [type |-> "separator"]]

\* C9: Save to an existing document followed by Load of the same path gives a
\* tree equal to the saved one in everything but the identifiers
C9_SaveLoadRoundTrip ==
  \A path \in Paths :
    exists(files, path) =>
      LET saved == save_yaml(files, path, Tree, original_yaml, clock)
          loaded == load_yaml(saved.fs, path, uuidCount)
      IN /\ saved.raised = ""
         /\ loaded.raised = ""
         /\ Shape(loaded.T, loaded.T.root_items) = Shape(Tree, root_items)

\* C10: Save on a path that does not exist succeeds, writes the document,
\* creates no backup, and ListBackups of the path is then empty
C10_SaveToNewPath ==
  \A path \in Paths :
    ~exists(files, path) =>
      LET out == save_yaml(files, path, Tree, original_yaml, clock) IN
      /\ out.raised = ""
      /\ exists(out.fs, path)
      /\ DOMAIN out.fs = DOMAIN files \cup {path}
      /\ get_backup_info(out.fs, path) = <<>>

\* C11: when a step of save_yaml after the backup fails (serialization, opening
\* or writing the temporary file, fsync, rename), the call ends by raising, and
\* the target then holds the document it held when the call began
C11_FailedSaveRestoresTarget ==
  /\ sv.fault # "" => sv.pc \in {"except", "restore_copy", "raise", "raised", "crashed"}
  /\ (sv.fault # "" /\ sv.pc = "raised")
       => /\ sv.raised = "ValueError"
          /\ exists(files, sv.path)
          /\ files[sv.path] = sv.pre

\* the rename failed with the new document fully written, and the call raised
C11_Witness ==
  /\ sv.pc = "raised" /\ sv.fault = "rename"
  /\ sv.data # sv.pre
  /\ files[with_suffix(sv.path, ".tmp", 0)] = sv.data

\* C12: at every point of a save of an existing document, a crash included,
\* the target holds the whole old or the whole new document, and holds the
\* new one only after the rename of the written and synced temporary file
C12_TargetNeverPartial ==
  (sv.pc # "idle" /\ sv.pre # NoData)
    => /\ exists(files, sv.path)
       /\ files[sv.path] \in {sv.pre, sv.data}
       /\ files[sv.path] # sv.pre => (sv.synced /\ sv.pc = "returned")

\* a node record with an 'id' key, at any depth
RECURSIVE HasIdKey(_)
HasIdKey(records) ==
  \E i \in 1..Len(records) :
    \/ "id" \in DOMAIN records[i]
    \/ records[i].type = "group" /\ HasIdKey(records[i].items)

\* C13: no document on disk has a node record with an 'id' key, in the root
\* list or in the list of a group at any depth
C13_NoIdsPersisted ==
  \A p \in DOMAIN files :
    files[p].kind = "document" => ~HasIdKey(files[p].items)

\* a tree with a group inside a group was saved
C13_Witness ==
  /\ sv.pc = "returned"
  /\ files[sv.path] = sv.data
  /\ \E i \in 1..Len(sv.data.items) :
       /\ sv.data.items[i].type = "group"
       /\ \E j \in 1..Len(sv.data.items[i].items) :
            sv.data.items[i].items[j].type = "group"
  /\ Cardinality(DOMAIN nodes) = 5

\* C14: the backups listed for a path change only when a save of that very
\* path makes its backup, and they are listed newest first
C14_BackupsOfThatPathOnly ==
  [][\A q \in {p \in SavePaths : exists(files, p)} :
       LET before == get_backup_info(files, q)
           after == get_backup_info(files', q)
       IN /\ after # before => (sv.path = q /\ sv.pc \in {"backup_open", "backup_copy"})
          /\ \A i, j \in 1..Len(after) : i < j => after[i].timestamp > after[j].timestamp]_vars

\* C15: the session is never asked whether to reload because of a change of
\* the file that its own save made
C15_OwnSaveNeverAsked == watch.dialog # "own"

\* C16: should_ignore_change(path) answers True while the path's window is
\* open (now at or before its deadline), whatever the file's identity and
\* even if the file is gone; past the deadline it answers False and drops the
\* window, and from then on, as for a path that never had a window, it answers
\* False at any time until begin_save opens a new window
C16_ShouldIgnoreByDeadline ==
  \A path \in Paths :
    LET out == should_ignore_change(_saves, path, mono, files) IN
    IF path \notin DOMAIN _saves
    THEN /\ out = [ret |-> FALSE, saves |-> _saves]
         /\ path \notin DOMAIN end_save(_saves, path, mono, files)
    ELSE IF mono <= _saves[path].until
    THEN out = [ret |-> TRUE, saves |-> _saves]
    ELSE /\ out.ret = FALSE
         /\ path \notin DOMAIN out.saves
         /\ \A q \in DOMAIN _saves \ {path} :
              q \in DOMAIN out.saves /\ out.saves[q] = _saves[q]
         /\ \A now \in mono..MaxMono + 1 :
              ~should_ignore_change(end_save(out.saves, path, now, files),
                                    path, now, files).ret

\* a check inside the window answered True although the file is no longer the
\* one end_save recorded
C16_Witness ==
  /\ last = [op |-> "should_ignore_change", result |-> "True", why |-> DefaultPath.stem]
  /\ DefaultPath \in DOMAIN _saves
  /\ _saves[DefaultPath].ident # NoStat
  /\ stat(files, DefaultPath) # _saves[DefaultPath].ident
  /\ mono <= _saves[DefaultPath].until

\* the parts of a message
Parts(message) == {message[i] : i \in 1..Len(message)}

\* C17: a reload call that has returned tried the socket exactly once; if that
\* succeeded it did not try the CLI; if it failed it tried the CLI, and more
\* than once (retrying) before giving up; when both failed the message
\* returned holds the socket's failure message and the CLI's
C17_PrimaryOnceFallbackRetried ==
  reload.pc = "done"
    => /\ reload.socket_attempts = 1
       /\ reload.ok => (reload.cli_attempts = 0 /\ reload.result = <<TRUE, <<reload.msg>>>>)
       /\ ~reload.ok => reload.cli_attempts >= 1
       /\ (~reload.ok /\ ~reload.ok_cli)
            => /\ reload.result[1] = FALSE
               /\ {reload.msg, reload.msg_cli} \subseteq Parts(reload.result[2])
               /\ reload.cli_attempts > 1

\* C18: a reload call always ends by returning a pair (flag, message), whatever
\* the socket and the subprocess do: no exception leaves it, it makes at most
\* one attempt on each transport, and no wait lasts longer than its timeout
C18_ReloadTerminates ==
  /\ [](/\ reload.raised = "" /\ reload.pc # "raised"
        /\ reload.socket_attempts <= 1 /\ reload.cli_attempts <= 1
        /\ reload.pc \in {"waitForConnected", "waitForReadyRead"}
             => reload.wait <= SocketTimeout
        /\ reload.pc = "subprocess.run" => reload.wait <= CliTimeout
        /\ reload.pc = "done"
             => (reload.result[1] \in BOOLEAN /\ Len(reload.result[2]) >= 1))
  /\ (reload.pc = "socket" ~> reload.pc = "done")

\* both transports ran into their timeouts, and the call returned
C18_Witness ==
  /\ reload.pc = "done"
  /\ reload.msg = "no response from tray"
  /\ reload.msg_cli = "CLI reload timeout"
  /\ cli.pc = "killed"
  /\ reload.result = <<FALSE, both_failed(reload.msg, reload.msg_cli)>>

\* C19: when the editor's Reload command has finished while a tray process is
\* running, the tray has reloaded or a reload signal is waiting for it, unless
\* the call reported that it failed
C19_EditorRequestReachesTray ==
  (reload.via = "MainWindow" /\ reload.pc \in {"done", "warned"} /\ tray.running)
    => \/ tray.reloaded
       \/ exists(files, TriggerFile)
       \/ (reload.pc = "done" /\ reload.result[1] = FALSE)

\* C20: `trayrunner --reload` exits with code 0 exactly if the tray has taken
\* the trigger it wrote, and the caller counts exit code 0, and nothing else,
\* as success
C20_ExitZeroIffHandled ==
  /\ cli.pc = "exited" => (cli.returncode = 0 <=> cli.handled)
  /\ (reload.pc = "done" /\ reload.cli_attempts = 1)
       => (reload.ok_cli <=> (cli.pc = "exited" /\ cli.returncode = 0))

\* ------------------------------------------------------------ validation
\* the nodes and the sibling lists of the tree (what hangs off the root list)
Reach(T) == UNION {Subtree(T, T.root_items[i]) : i \in 1..Len(T.root_items)}
SiblingLists(T) == {RootList} \cup {n \in Reach(T) : IsGroup(T, n)}

\* the location strings of the findings: of a node, of a list for the
\* separator check, of row i of a list for the duplicate check
RECURSIVE NodePath(_, _)
ItemsPath(T, ref) ==
  IF ref = RootList THEN <<"items">> ELSE NodePath(T, ref) \o <<".items">>
NodePath(T, n) == ItemsPath(T, HolderOf(T, n)) \o <<RowOf(T, n)>>
DuplicatePath(T, ref, i) ==
  IF ref = RootList THEN <<"root", ".items", i>> ELSE NodePath(T, ref) \o <<".items", i>>

\* Validate(tree), called on the shared instance as it is now
Findings == validate_config(config_validator, Tree).ret
FindingsAt(sel(_), location) ==
  Len(SelectSeq(Findings, LAMBDA f : sel(f) /\ f.location = location))
AllPaths == {Findings[k].location : k \in 1..Len(Findings)}

IsDuplicateError(f) == f.type = "error" /\ f.message[1] = "Duplicate label: "
Labelled(T, n) == T.nodes[n].type \in {"item", "group"}
\* the rows of a list whose label repeats that of an earlier row
Repeats(T, ref) ==
  LET list == ListAt(T, ref) IN
  {i \in 0..(Len(list) - 1) :
     /\ Labelled(T, list[i + 1])
     /\ \E j \in 0..(i - 1) : /\ Labelled(T, list[j + 1])
                              /\ T.nodes[list[j + 1]].label = T.nodes[list[i + 1]].label}
RepeatPaths(T) ==
  UNION {{DuplicatePath(T, ref, i) : i \in Repeats(T, ref)} : ref \in SiblingLists(T)}

\* the document [Item("Build", "make"), Separator, Item("Build", "make")], loaded
BuildSeparatorBuild ==
  [nodes |-> <<ItemNode(generate_node_id(0), Text("Build"), "make", FALSE, FALSE, NoEnv),
               SeparatorNode(generate_node_id(1)),
               ItemNode(generate_node_id(2), Text("Build"), "make", FALSE, FALSE, NoEnv)>>,
   root_items |-> <<1, 2, 3>>]

\* C22: Validate reports one duplicate-label error for each Item or Group
\* whose label repeats that of an earlier Item or Group of the same sibling
\* list, at the row of the repeat, and no other duplicate-label error: none for
\* a first occurrence, none for a label shared across different lists. For
\* [Item Build, Separator, Item Build] that is one finding, the error on row 2.
C22_DuplicatePerRepeat ==
  /\ \A location \in RepeatPaths(Tree) : FindingsAt(IsDuplicateError, location) = 1
  /\ \A location \in AllPaths \ RepeatPaths(Tree) : FindingsAt(IsDuplicateError, location) = 0
  /\ \A ref \in SiblingLists(Tree) : \A i \in Repeats(Tree, ref) :
       \E k \in 1..Len(Findings) :
         /\ IsDuplicateError(Findings[k])
         /\ Findings[k].location = DuplicatePath(Tree, ref, i)
         /\ Findings[k].message[2] = nodes[ListAt(Tree, ref)[i + 1]].label
         /\ Findings[k].field = <<"label">>
  /\ validate_config(config_validator, BuildSeparatorBuild).ret
       = <<ValidationError("error", <<"root", ".items", 2>>,
                           <<"Duplicate label: ", Text("Build")>>, <<"label">>)>>

\* two Items of one label around a Separator were added to the root list and
\* validated: one finding, the duplicate-label error on row 2
C22_Witness ==
  /\ Len(root_items) = 3
  /\ nodes[root_items[1]].type = "item"
  /\ nodes[root_items[2]].type = "separator"
  /\ nodes[root_items[3]].type = "item"
  /\ nodes[root_items[3]].label = nodes[root_items[1]].label
  /\ last.op = "add_item"
  /\ config_validator.errors \o config_validator.warnings = Findings
  /\ Findings = <<ValidationError("error", <<"root", ".items", 2>>,
                                  <<"Duplicate label: ", Text("New Item")>>, <<"label">>)>>

IsSeparatorWarning(f) == f.type = "warning" /\ f.field = <<"type">>
\* how many of the three conditions hold of row i of a list: a Separator that
\* is first, that is last, that is followed by a Separator
Misplacements(T, list, i) ==
  IF ~IsSeparator(T, list[i + 1]) THEN 0
  ELSE (IF i = 0 THEN 1 ELSE 0) + (IF i = Len(list) - 1 THEN 1 ELSE 0)
       + (IF i + 1 < Len(list) /\ IsSeparator(T, list[i + 2]) THEN 1 ELSE 0)
RowPaths(T) ==
  UNION {{ItemsPath(T, ref) \o <<i>> : i \in 0..(Len(ListAt(T, ref)) - 1)} :
         ref \in SiblingLists(T)}

\* C23: in every sibling list at every depth, a Separator gets a
\* separator-placement warning if and only if it is first in its list, last in
\* its list or immediately followed by a Separator (one warning per condition
\* that holds), and nothing else gets one.
C23_SeparatorWarnings ==
  /\ \A ref \in SiblingLists(Tree) : \A i \in 0..(Len(ListAt(Tree, ref)) - 1) :
       /\ FindingsAt(IsSeparatorWarning, ItemsPath(Tree, ref) \o <<i>>)
            = Misplacements(Tree, ListAt(Tree, ref), i)
       /\ (FindingsAt(IsSeparatorWarning, ItemsPath(Tree, ref) \o <<i>>) > 0)
            <=> /\ IsSeparator(Tree, ListAt(Tree, ref)[i + 1])
                /\ \/ i = 0
                   \/ i = Len(ListAt(Tree, ref)) - 1
                   \/ /\ i + 1 < Len(ListAt(Tree, ref))
                      /\ IsSeparator(Tree, ListAt(Tree, ref)[i + 2])
  /\ \A location \in AllPaths \ RowPaths(Tree) : FindingsAt(IsSeparatorWarning, location) = 0
  /\ \A k \in 1..Len(Findings) : IsSeparatorWarning(Findings[k]) =>
       Findings[k].message \in {<<"Separator at beginning has no visual effect">>,
                                <<"Separator at end has no visual effect">>,
                                <<"Back-to-back separators have no visual effect">>}

\* a root group [Separator, not a Separator] was validated: the Separator has
\* one warning (it is first), the row after it has none
C23_Witness ==
  /\ Len(root_items) = 1 /\ IsGroup(Tree, root_items[1])
  /\ Len(nodes[root_items[1]].items) = 2
  /\ IsSeparator(Tree, nodes[root_items[1]].items[1])
  /\ ~IsSeparator(Tree, nodes[root_items[1]].items[2])
  /\ config_validator.errors \o config_validator.warnings = Findings
  /\ FindingsAt(IsSeparatorWarning, <<"items", 0, ".items", 0>>) = 1
  /\ FindingsAt(IsSeparatorWarning, <<"items", 0, ".items", 1>>) = 0

IsNoItemsWarning(f) ==
  f.type = "warning" /\ f.message = <<"Group has no items">> /\ f.field = <<"items">>
Groups(T) == {n \in Reach(T) : IsGroup(T, n)}

\* C24: a tree whose only root node is a Group with a label and no children
\* validates to exactly one finding, the warning at that group; and every Group
\* without children, at any depth, has exactly one 'no items' warning at its
\* own location (a Group with children has none).
C24_EmptyGroupWarning ==
  /\ (/\ Len(root_items) = 1
      /\ IsGroup(Tree, root_items[1])
      /\ ~blank_label(nodes[root_items[1]].label)
      /\ nodes[root_items[1]].items = <<>>)
       => Findings = <<ValidationError("warning", <<"items", 0>>,
                                       <<"Group has no items">>, <<"items">>)>>
  /\ \A g \in Groups(Tree) :
       FindingsAt(IsNoItemsWarning, NodePath(Tree, g))
         = IF nodes[g].items = <<>> THEN 1 ELSE 0

\* a Group without children inside a root Group was validated: the inner
\* Group has its warning, the outer one has none
C24_Witness ==
  /\ Len(root_items) = 1 /\ IsGroup(Tree, root_items[1])
  /\ Len(nodes[root_items[1]].items) = 1
  /\ IsGroup(Tree, nodes[root_items[1]].items[1])
  /\ nodes[nodes[root_items[1]].items[1]].items = <<>>
  /\ last.op = "add_group"
  /\ config_validator.errors \o config_validator.warnings = Findings
  /\ Findings = <<ValidationError("warning", <<"items", 0, ".items", 0>>,
                                  <<"Group has no items">>, <<"items">>)>>

\* C25: a tree with no root nodes validates to exactly one finding, a warning
\* at location 'root'; and for every tree Validate returns a list of findings,
\* each an error or a warning with a location (it has no other outcome).
C25_EmptyRootWarning ==
  /\ root_items = <<>>
       => Findings = <<ValidationError("warning", <<"root">>,
                                       <<"Configuration has no items">>, <<"items">>)>>
  /\ Findings \in Seq({Findings[k] : k \in 1..Len(Findings)})
  /\ \A k \in 1..Len(Findings) :
       /\ Findings[k].type \in {"error", "warning"}
       /\ Findings[k].location # <<>>
       /\ Findings[k].message # <<>>
  /\ root_items # <<>> => \A k \in 1..Len(Findings) : Findings[k].location # <<"root">>

\* the last node of the tree was deleted, and the empty tree validated
C25_Witness ==
  /\ root_items = <<>>
  /\ last.op = "delete" /\ last.why = "deleted"
  /\ config_validator.warnings = <<ValidationError("warning", <<"root">>,
                                     <<"Configuration has no items">>, <<"items">>)>>
  /\ config_validator.errors = <<>>
  /\ Findings = config_validator.warnings

\* C26: Validate is a function of the tree alone: on the shared instance, in
\* whatever state earlier calls left it, it returns what a new instance
\* returns; a second call on the same tree returns the same sequence; and a
\* call on another tree in between changes nothing of that.
C26_ValidateIsPure ==
  LET first == validate_config(config_validator, Tree)
      again == validate_config(first.self, Tree)
  IN /\ first.ret = validate_config(NoFindings, Tree).ret
     /\ again.ret = first.ret
     /\ again.self = first.self
     /\ \A other \in {EmptyTree, BuildSeparatorBuild} :
          LET between == validate_config(first.self, other) IN
          /\ between.ret = validate_config(NoFindings, other).ret
          /\ validate_config(between.self, Tree).ret = first.ret

\* the shared instance holds the findings of a tree that has some, and is then
\* asked about a tree with other findings
C26_Witness ==
  /\ config_validator.errors # <<>> /\ config_validator.warnings # <<>>
  /\ config_validator.errors \o config_validator.warnings = Findings
  /\ validate_config(config_validator, BuildSeparatorBuild).ret # Findings
  /\ Len(validate_config(config_validator, BuildSeparatorBuild).ret) = 1
  /\ validate_config(validate_config(config_validator, BuildSeparatorBuild).self, Tree).ret
       = Findings

\* ------------------------------------------------------- stale endpoint
\* C21: the editor is told the tray is running exactly when the socket file
\* exists (it warns and gives up exactly when it does not). When the file is
\* there and nothing accepts the connection, the socket attempt ends within its
\* timeout with a failure, nothing raises, the request goes on to the CLI and
\* returns; its result is a failure unless that CLI invocation exits 0, which
\* it cannot without a tray process.
C21_StaleSocketFails ==
  /\ [](/\ is_trayrunner_running(files) <=> exists(files, SockPath)
        /\ (reload.via = "MainWindow" /\ reload.pc # "idle")
             => (reload.pc = "warned" <=> ~exists(files, SockPath))
        /\ reload.pc = "waitForConnected"
             => (exists(files, SockPath) /\ reload.wait <= SocketTimeout)
        /\ reload.raised = "" /\ reload.pc # "raised"
        /\ reload.msg = "connect timeout"
             => /\ ~reload.ok
                /\ reload.pc \in {"cli", "subprocess.run", "done"}
                /\ reload.pc = "done" => reload.result[1] = reload.ok_cli
                /\ (reload.pc = "done" /\ ~tray.running) => reload.result[1] = FALSE)
  /\ (reload.pc = "waitForConnected" ~> reload.pc = "done")

\* the editor found the socket file, nothing accepted the connection, no tray
\* was there to take the trigger file either: the request returned a failure
C21_Witness ==
  /\ reload.pc = "done"
  /\ reload.via = "MainWindow"
  /\ exists(files, SockPath)
  /\ ~tray.running
  /\ reload.msg = "connect timeout"
  /\ reload.result[1] = FALSE

\* C29: every call of _sock_path returns the same path, 'reload.sock' in the
\* user's '.local/state/trayrunner' directory, and the client checks for the
\* tray and connects at that same path.
C29_SockPathInLocalState ==
  LET expected == <<"~", ".local", "state", "trayrunner", "reload.sock">> IN
  /\ reload.checked # <<>> => reload.checked = expected
  /\ reload.connected # <<>> => reload.connected = expected
  /\ (reload.checked # <<>> /\ reload.connected # <<>>) => reload.checked = reload.connected

\* ------------------------------------------------------------ remove, move
\* C27: Remove of the selected node n, at any depth, leaves the tree that the
\* prior tree becomes when the subtree at n is taken out of n's own parent
\* list, and nothing else changes.
C27_RemoveDeletesSelected ==
  \A n \in Reach(Tree) :
    LET holder == HolderOf(Tree, n)
        row == RowOf(Tree, n)
        expected == Forget(SetList(Tree, holder,
                                   PyDelSlice(ListAt(Tree, holder), row, row + 1)),
                           Subtree(Tree, n))
    IN delete_selected(Tree, n, "Yes").T = expected

\* a configuration of five items, rows 0 to 4
FiveItems ==
  [nodes |-> [k \in 1..5 |-> ItemNode(generate_node_id(k - 1), Label("Item", <<NumTok(k - 1)>>),
                                      "make", FALSE, FALSE, NoEnv)],
   root_items |-> <<1, 2, 3, 4, 5>>]

\* the list after the block [start, end) of list s went to stand before what
\* was at row d (at the end for d = Len(s)), for d outside (start, end)
BlockBefore(s, start, end, d) ==
  IF d >= end
  THEN SubSeq(s, 1, start) \o SubSeq(s, end + 1, d) \o SubSeq(s, start + 1, end)
       \o SubSeq(s, d + 1, Len(s))
  ELSE SubSeq(s, 1, d) \o SubSeq(s, start + 1, end) \o SubSeq(s, d + 1, start)
       \o SubSeq(s, end + 1, Len(s))

LoadCase(path) ==
  IF ~exists(files, path) THEN "missing"
  ELSE IF files[path].kind # "document" THEN "malformed" ELSE "document"

\* C28: loading a path that does not exist gives the empty tree and no loader
\* context, without error; loading malformed content fails with the parse
\* error and leaves the session's tree, loader context and document path as
\* they were; a successful load replaces the session's tree by the freshly
\* parsed one as a whole (no node of the old tree is kept).
C28_LoadOutcomes ==
  [][\A path \in Paths :
       load_config_file(path) =>
         /\ LoadCase(path) = "missing"
              => /\ last'.result = "ok"
                 /\ nodes' = <<>> /\ root_items' = <<>>
                 /\ original_yaml' = NoData
         /\ LoadCase(path) = "malformed"
              => /\ last'.result = "raised" /\ last'.why = "ValueError"
                 /\ UNCHANGED <<nodes, root_items, original_yaml, config_path>>
         /\ LoadCase(path) = "document"
              => /\ last'.result = "ok"
                 /\ original_yaml' = files[path]
                 /\ config_path' = path
                 /\ Len(root_items') = Len(files[path].items)
                 /\ LET parsed == model_validate(EmptyTree, files[path].items,
                                                 uuidCount, <<>>)
                    IN nodes' = parsed.T.nodes /\ root_items' = parsed.refs
                 /\ \A n \in DOMAIN nodes' : \A old \in DOMAIN nodes :
                      nodes'[n].id # nodes[old].id]_vars

\* a document with content was open when a load of malformed content failed:
\* the tree, the loader context and the path are still those of the document
C28_Witness ==
  /\ last.op = "load" /\ last.result = "raised"
  /\ root_items # <<>>
  /\ config_path # NoPath
  /\ exists(files, config_path)
  /\ original_yaml.kind = "document"
  /\ original_yaml.items # <<>>

\* -------------------------------------------------------- what Save writes
\* the dumped records with the node's own identifier taken out, every other
\* field, the environment mapping included, as it is
RECURSIVE WithoutNodeIds(_)
WithoutNodeIds(records) ==
  [i \in 1..Len(records) |->
     [k \in DOMAIN records[i] \ {"id"} |->
        IF k = "items" THEN WithoutNodeIds(records[i][k]) ELSE records[i][k]]]

\* C40: a successful Save writes every node with all its fields but the
\* node's identifier; every entry of an Item's environment mapping is
\* written, whatever its key.
C40_OnlyNodeIdsStripped ==
  (last.op = "save" /\ last.result = "ok")
    => files[config_path].items = WithoutNodeIds(model_dump(Tree, root_items))

\* the backups of `path` in the directory
BackupsOf(fs, path) == {p \in DOMAIN fs : p.stem = path.stem /\ p.ext = ".yaml.bak-"}

\* C39: every successful Save of an existing file adds one backup, holding
\* what the target held before that Save, and leaves every earlier backup as
\* it was, also when two saves fall into one clock second.
C39_EachSaveKeepsItsBackup ==
  [][\A path \in Paths :
       (save_to(path) /\ exists(files, path) /\ last'.result = "ok")
         => /\ Cardinality(BackupsOf(files', path)) = Cardinality(BackupsOf(files, path)) + 1
            /\ \A b \in BackupsOf(files, path) : files'[b] = files[b]
            /\ \E b \in BackupsOf(files', path) \ BackupsOf(files, path) :
                 files'[b] = files[path]]_vars

\* C38: the dirty flag tracks unsaved edits across any sequence of operations:
\* it is set after every operation that changed the tree and left alone by an
\* operation that changed nothing, it stays as it was when a save fails, and it
\* is clear after a successful save, after a new document and after a
\* successful load or revert of the file.
C38_DirtyTracksEdits ==
  [][/\ (add_item \/ add_group \/ add_separator \/ edit_item) => has_unsaved_changes'
     /\ ((save_config \/ save_as_config) /\ last'.result = "raised")
          => has_unsaved_changes' = has_unsaved_changes
     /\ ((save_config \/ save_as_config) /\ last'.result = "ok") => ~has_unsaved_changes'
     /\ new_config => ~has_unsaved_changes'
     /\ ((open_config \/ revert_config) /\ last'.result = "ok")
          => ~has_unsaved_changes']_vars

\* C38, the part about an operation that changed nothing: a delete that
\* removed nothing leaves the dirty flag as it was.
C38_CancelledDeleteKeepsFlag ==
  [][(delete /\ last'.result # "ok") => has_unsaved_changes' = has_unsaved_changes]_vars

\* the 'no items' warning of a Group of the root list is appended while the
\* nodes of the root list are visited; the duplicate-label errors of the root
\* list are appended by the pass over the root list that follows that visit
IsRootGroupWarning(f) == IsNoItemsWarning(f) /\ Len(f.location) = 2 /\ f.location[1] = "items"
IsRootDuplicateError(f) == IsDuplicateError(f) /\ Len(f.location) = 3 /\ f.location[1] = "root"

\* C37: Validate returns its findings in the order the traversal generated
\* them, with no regrouping by severity: the warning generated for a Group of
\* the root list comes before the duplicate-label error generated, after the
\* visit of the root list's nodes, for a later repeat in the root list.
C37_FindingsInEmissionOrder ==
  \A i, j \in DOMAIN Findings :
    (IsRootGroupWarning(Findings[i]) /\ IsRootDuplicateError(Findings[j])) => i < j

SamePopulation(T, T2) ==
  /\ DOMAIN T2.nodes = DOMAIN T.nodes
  /\ \A n \in DOMAIN T.nodes : Occurrences(T2, n) = Occurrences(T, n)
\* the rows the payload names, taken from the list the payload names
PayloadBlock(T, payload) ==
  PySlice(ListAt(T, _get_children_list(T, payload.src_parent)), payload.start, payload.end)
BlockKept(T2, block) ==
  \E ref \in AllLists(T2) : \E k \in 0..Len(ListAt(T2, ref)) : BlockAt(ListAt(T2, ref), block, k)

\* C31, the population half: a successful Move, MoveUp or MoveDown neither
\* loses nor duplicates a node.
C31_PopulationKept ==
  /\ \A index \in Live, parent_index \in Indexes, row \in -1..MaxRow :
       LET out == drop_gesture(Tree, index, parent_index, row)
       IN out.result = "ok" => SamePopulation(Tree, out.T)
  /\ \A index \in Live :
       \A out \in {_move_selected_up(Tree, index), _move_selected_down(Tree, index)} :
         out.result = "ok" => SamePopulation(Tree, out.T)

\* C31: every successful Move, MoveUp or MoveDown keeps the node population
\* (no node lost or duplicated) and leaves the moved block contiguous and in
\* its original order, also when the destination index lies strictly inside
\* the block's own range [start, end) of the same list.
C31_MoveKeepsBlockTogether ==
  /\ \A index \in Live, parent_index \in Indexes, row \in -1..MaxRow :
       LET payload == mimeData(Tree, index)
           out == drop_gesture(Tree, index, parent_index, row)
       IN out.result = "ok" =>
            /\ SamePopulation(Tree, out.T)
            /\ BlockKept(out.T, PayloadBlock(Tree, payload))
  /\ \A index \in Live :
       \A out \in {_move_selected_up(Tree, index), _move_selected_down(Tree, index)} :
         out.result = "ok" =>
           /\ SamePopulation(Tree, out.T)
           /\ BlockKept(out.T, <<index>>)

\* C32: MoveUp puts the selected block (the node, or a Separator with its run)
\* in front of the sibling that preceded it, MoveDown puts it behind the sibling
\* that followed it, both in the same list; at the list boundary (no sibling
\* before the block, none after it) the operation changes nothing.
C32_MoveUpDownOnePosition ==
  \A index \in Live :
    LET holder == HolderOf(Tree, index)
        list == ListAt(Tree, holder)
        r == RowOf(Tree, index)
        e == BlockEnd(Tree, list, r)
        block == PySlice(list, r, e)
        up == _move_selected_up(Tree, index)
        down == _move_selected_down(Tree, index)
    IN /\ r = 0 => up.T = Tree
       /\ r > 0 =>
            /\ up.result = "ok"
            /\ ListAt(up.T, holder)
                 = PySlice(list, 0, r - 1) \o block \o <<list[r]>> \o PySlice(list, e, Len(list))
       /\ e = Len(list) => down.T = Tree
       /\ e < Len(list) =>
            /\ down.result = "ok"
            /\ ListAt(down.T, holder)
                 = PySlice(list, 0, r) \o <<list[e + 1]>> \o block
                     \o PySlice(list, e + 1, Len(list))

\* the nodes whose parent Group is itself the child of a Group
DeepNodes(T) ==
  {n \in Reach(T) : /\ HolderOf(T, n) # RootList
                     /\ HolderOf(T, HolderOf(T, n)) # RootList}

\* C33: for a node nested at depth 2 or more, block selection names the child
\* list of the node's real parent Group, a Move takes the block out of that
\* list, and Remove deletes the node's row from that list and changes no other
\* list.
C33_DeepNodeUsesItsOwnList ==
  \A n \in DeepNodes(Tree) :
    LET holder == HolderOf(Tree, n)
        list == ListAt(Tree, holder)
        payload == mimeData(Tree, n)
        gone == delete_selected(Tree, n, "Yes")
    IN /\ _get_children_list(Tree, payload.src_parent) = holder
       /\ \A parent_index \in Indexes, row \in -1..MaxRow :
            LET out == drop_gesture(Tree, n, parent_index, row)
            IN (out.result = "ok" /\ _get_children_list(Tree, _get_parent_id(Tree, parent_index)) # holder)
                 => n \notin SeqToSet(ListAt(out.T, holder))
       /\ gone.result = "ok"
       /\ n \notin DOMAIN gone.T.nodes
       /\ ListAt(gone.T, holder) = Without(list, {n})
       /\ \A ref \in AllLists(gone.T) \ {holder} : ListAt(gone.T, ref) = ListAt(Tree, ref)

\* C34: end_save(path) on a path whose window begin_save opened, with the file
\* there, records the file's identity and leaves a deadline that is not earlier
\* than the one begin_save set; end_save on a path without a window, or whose
\* file is missing, changes nothing.
C34_EndSaveExtendsWindow ==
  [][\A path \in Paths :
       (call_end_save /\ _saves' = end_save(_saves, path, mono, files))
         => IF path \in DOMAIN _saves /\ exists(files, path)
            THEN /\ _saves'[path].ident = stat(files, path)
                 /\ _saves[path].ident = NoStat => _saves'[path].until >= _saves[path].until
            ELSE _saves' = _saves]_vars

\* ------------------------------------------- a save inside the save window
\* FileWatcher._setup_polling: self.timer.start(2000), in half seconds
PollPeriod == 4

\* a session that watches the default document by polling
InitPolling ==
  /\ nodes = <<>>
  /\ root_items = <<>>
  /\ uuidCount = 0
  /\ last = NoOp
  /\ files = write_file(NoFiles, DefaultPath, Document(<<>>))
  /\ clock = 1
  /\ config_path = DefaultPath
  /\ original_yaml = Document(<<>>)
  /\ SvcInit(DefaultPath)
  /\ config_validator = update_validation(NoFindings, Tree)
  /\ has_unsaved_changes = FALSE

\* a save of the watched document as the coordinator expects it: begin_save,
\* then the write, then end_save; this one takes less than half a second
guarded_begin_save ==
  /\ sv.pc = "idle"
  /\ watch.dialog = "none"
  /\ sv' = [NoSave EXCEPT !.pc = "begun", !.path = watch.path]
  /\ _saves' = begin_save(_saves, watch.path, mono, DefaultWindow)
  /\ last' = [op |-> "begin_save", result |-> "None", why |-> watch.path.stem]
  /\ UNCHANGED <<tree_vars, disk_vars, watch, mono, rl_vars, config_validator,
                 has_unsaved_changes>>

guarded_write ==
  /\ sv.pc = "begun"
  /\ \E doc \in SampleDocs :
       /\ files' = write_file(files, sv.path, Document(doc))
       /\ original_yaml' = Document(doc)
  \* the file's st_mtime is now later than FileWatcher.last_modified
  /\ watch' = own_write(watch, sv.path, TRUE)
  /\ sv' = [sv EXCEPT !.pc = "written"]
  /\ last' = [op |-> "write", result |-> "ok", why |-> "own"]
  /\ UNCHANGED <<tree_vars, clock, config_path, _saves, mono, rl_vars, config_validator,
                 has_unsaved_changes>>

guarded_end_save ==
  /\ sv.pc = "written"
  /\ _saves' = end_save(_saves, sv.path, mono, files)
  /\ sv' = NoSave
  /\ last' = [op |-> "end_save", result |-> "None", why |-> sv.path.stem]
  /\ UNCHANGED <<tree_vars, disk_vars, watch, mono, rl_vars, config_validator,
                 has_unsaved_changes>>

\* another program writes the watched file
external_write ==
  /\ sv.pc = "idle"
  /\ watch.pending = "none"
  /\ \E doc \in SampleDocs : files' = write_file(files, watch.path, Document(doc))
  /\ watch' = [watch EXCEPT !.pending = "external"]
  /\ last' = [op |-> "write", result |-> "ok", why |-> "external"]
  /\ UNCHANGED <<tree_vars, clock, config_path, original_yaml, sv, _saves, mono, rl_vars,
                 config_validator, has_unsaved_changes>>

\* half a second passes; every PollPeriod the timer fires
\* FileWatcher._check_file_changes, which emits file_changed for a file whose
\* st_mtime is later than the one it saw last, and file_changed runs
\* ConfigFileWatcher._on_file_changed
_check_file_changes ==
  /\ sv.pc = "idle"
  /\ mono < MaxMono
  /\ mono' = mono + 1
  /\ IF mono' % PollPeriod = 0 /\ watch.pending # "none" /\ watch.dialog = "none"
     THEN \E out \in {should_ignore_change(_saves, watch.path, mono', files)} :
            /\ _saves' = out.saves
            /\ watch' = [watch EXCEPT !.pending = "none",
                                      !.dialog = IF out.ret THEN "none" ELSE watch.pending]
            /\ last' = [op |-> "file_changed",
                        result |-> IF out.ret THEN "ignored" ELSE "asked",
                        why |-> watch.pending]
     ELSE /\ last' = [op |-> "tick", result |-> "ok", why |-> "monotonic"]
          /\ UNCHANGED <<_saves, watch>>
  /\ UNCHANGED <<tree_vars, disk_vars, sv, rl_vars, config_validator, has_unsaved_changes>>

NextPolling ==
  \/ guarded_begin_save
  \/ guarded_write
  \/ guarded_end_save
  \/ external_write
  \/ _check_file_changes
  \/ on_external_file_change

SpecPolling == InitPolling /\ [][NextPolling]_vars

\* C36: with the save bracketed by begin_save and end_save, the change the
\* polling watcher reports for the session's own write is checked while the
\* save window is still open, so it is ignored: the session is never asked to
\* reload because of its own write.
C36_OwnWriteCheckedInsideWindow ==
  [][(_check_file_changes /\ watch.pending = "own" /\ watch'.pending = "none")
       => /\ watch.path \in DOMAIN _saves
          /\ mono' <= _saves[watch.path].until
          /\ last'.result = "ignored"
          /\ watch'.dialog = "none"]_vars

\* ------------------------------------ the coordinator called from two threads
\* `with self._lock:` blocks until nobody holds the lock
acquire_NoLock(lock) == TRUE
acquire(lock) == lock = Unlocked

main_goto(pc) ==
  IF pc = "idle" THEN [threads EXCEPT !.main = NoCalls.main] ELSE [threads EXCEPT !.main.pc = pc]
watcher_goto(pc) == [threads EXCEPT !.watcher.pc = pc]

\* the main thread saves `path`: begin_save(path) enters `with self._lock`
main_begin_save ==
  \E path \in Paths :
    /\ threads.main.pc = "idle"
    /\ acquire(_lock)
    /\ _lock' = "main"
    /\ threads' = [threads EXCEPT !.main = [pc |-> "begin_save", path |-> path, st |-> NoStat]]
    /\ last' = [op |-> "begin_save", result |-> "locked", why |-> path.stem]
    /\ UNCHANGED <<tree_vars, disk_vars, sv, watch, _saves, mono, reload, cli, tray,
                   config_validator, has_unsaved_changes>>

\* begin_save stores the new window and leaves the `with` block
main_begin_save_store ==
  /\ threads.main.pc = "begin_save"
  /\ _saves' = begin_save(_saves, threads.main.path, mono, DefaultWindow)
  /\ _lock' = Unlocked
  /\ threads' = main_goto("write")
  /\ last' = [op |-> "begin_save", result |-> "None", why |-> threads.main.path.stem]
  /\ UNCHANGED <<tree_vars, disk_vars, sv, watch, mono, reload, cli, tray,
                 config_validator, has_unsaved_changes>>

\* the write of the save
main_write ==
  /\ threads.main.pc = "write"
  /\ \E doc \in SampleDocs : files' = write_file(files, threads.main.path, Document(doc))
  /\ threads' = main_goto("end_save")
  /\ last' = [op |-> "write", result |-> "ok", why |-> threads.main.path.stem]
  /\ UNCHANGED <<tree_vars, clock, config_path, original_yaml, sv, watch, _saves, mono,
                 reload, cli, tray, _lock, config_validator, has_unsaved_changes>>

\* end_save: st = os.stat(path), outside the lock; FileNotFoundError ends the call
main_end_save_stat ==
  /\ threads.main.pc = "end_save"
  /\ \E st \in {stat(files, threads.main.path)} :
       threads' = IF st.raised # "" THEN main_goto("idle")
                  ELSE [threads EXCEPT !.main.st = st, !.main.pc = "end_save_lock"]
  /\ last' = [op |-> "end_save", result |-> "stat", why |-> threads.main.path.stem]
  /\ UNCHANGED <<tree_vars, disk_vars, sv, watch, _saves, mono, reload, cli, tray, _lock,
                 config_validator, has_unsaved_changes>>

\* end_save enters `with self._lock`
main_end_save_lock ==
  /\ threads.main.pc = "end_save_lock"
  /\ acquire(_lock)
  /\ _lock' = "main"
  /\ threads' = main_goto("end_save_stats")
  /\ last' = [op |-> "end_save", result |-> "locked", why |-> threads.main.path.stem]
  /\ UNCHANGED <<tree_vars, disk_vars, sv, watch, _saves, mono, reload, cli, tray,
                 config_validator, has_unsaved_changes>>

\* end_save: if path in self._saves, inode, size and mtime_ns are assigned
main_end_save_stats ==
  /\ threads.main.pc = "end_save_stats"
  /\ IF threads.main.path \in DOMAIN _saves
     THEN /\ _saves' = [_saves EXCEPT ![threads.main.path].ident = threads.main.st]
          /\ threads' = main_goto("end_save_until")
          /\ _lock' = _lock
     ELSE /\ _saves' = _saves
          /\ threads' = main_goto("idle")
          /\ _lock' = Unlocked
  /\ last' = [op |-> "end_save", result |-> "stats", why |-> threads.main.path.stem]
  /\ UNCHANGED <<tree_vars, disk_vars, sv, watch, mono, reload, cli, tray,
                 config_validator, has_unsaved_changes>>

\* end_save: until is assigned and the `with` block is left
main_end_save_until ==
  /\ threads.main.pc = "end_save_until"
  /\ _saves' = [_saves EXCEPT ![threads.main.path].until = mono + EndSaveWindow]
  /\ _lock' = Unlocked
  /\ threads' = main_goto("idle")
  /\ last' = [op |-> "end_save", result |-> "None", why |-> threads.main.path.stem]
  /\ UNCHANGED <<tree_vars, disk_vars, sv, watch, mono, reload, cli, tray,
                 config_validator, has_unsaved_changes>>

\* the window of `path` is there and its deadline has not passed
WindowOpen(saves, path, now) == path \in DOMAIN saves /\ now <= saves[path].until

\* the watch thread calls should_ignore_change(path): now = time.monotonic()
watcher_now ==
  \E path \in Paths :
    /\ threads.watcher.pc = "idle"
    /\ threads' = [threads EXCEPT !.watcher = [pc |-> "lock", path |-> path, now |-> mono,
                                               inside |-> WindowOpen(_saves, path, mono)]]
    /\ last' = [op |-> "should_ignore_change", result |-> "now", why |-> path.stem]
    /\ UNCHANGED <<tree_vars, disk_vars, sv, watch, _saves, mono, reload, cli, tray, _lock,
                   config_validator, has_unsaved_changes>>

\* should_ignore_change enters `with self._lock`
watcher_lock ==
  /\ threads.watcher.pc = "lock"
  /\ acquire(_lock)
  /\ _lock' = "watcher"
  /\ threads' = watcher_goto("locked")
  /\ last' = [op |-> "should_ignore_change", result |-> "locked",
              why |-> threads.watcher.path.stem]
  /\ UNCHANGED <<tree_vars, disk_vars, sv, watch, _saves, mono, reload, cli, tray,
                 config_validator, has_unsaved_changes>>

\* the body of the `with` block of should_ignore_change, with the `now` taken
\* before the lock, up to the return
watcher_check ==
  /\ threads.watcher.pc = "locked"
  /\ \E out \in {should_ignore_change(_saves, threads.watcher.path, threads.watcher.now, files)} :
       /\ _saves' = out.saves
       /\ threads' = [threads EXCEPT !.watcher = NoCalls.watcher]
       /\ last' = [op |-> "should_ignore_change",
                   result |-> IF out.ret THEN "True" ELSE "False",
                   why |-> threads.watcher.path.stem]
  /\ _lock' = IF _lock = "watcher" THEN Unlocked ELSE _lock
  /\ UNCHANGED <<tree_vars, disk_vars, sv, watch, mono, reload, cli, tray,
                 config_validator, has_unsaved_changes>>

NextThreads ==
  \/ main_begin_save
  \/ main_begin_save_store
  \/ main_write
  \/ main_end_save_stat
  \/ main_end_save_lock
  \/ main_end_save_stats
  \/ main_end_save_until
  \/ watcher_now
  \/ watcher_lock
  \/ watcher_check
  \/ mono_tick

SpecThreads == InitCoordinator /\ [][NextThreads]_vars

\* end_save has assigned the identity of the window of `path` and not yet its
\* deadline
HalfUpdated(path) == threads.main.pc = "end_save_until" /\ threads.main.path = path

\* C35: in every interleaving of the main thread's begin_save, write and
\* end_save with the watch thread's should_ignore_change, the check never reads
\* a window that is half updated (nor runs while begin_save is storing one), an
\* eviction removes only a window whose deadline has passed, and a check made
\* while the window was open answers True.
C35_WindowAtomicUnderLock ==
  /\ [](threads.watcher.pc = "locked"
          => /\ ~HalfUpdated(threads.watcher.path)
             /\ threads.main.pc # "begin_save")
  /\ [][\A path \in DOMAIN _saves :
          path \notin DOMAIN _saves' => mono > _saves[path].until]_vars
  /\ [][(watcher_check /\ threads.watcher.inside) => last'.result = "True"]_vars

\* the watch thread waits for the lock while end_save has half updated the
\* window of the path it asks about
C35_Witness ==
  /\ threads.watcher.pc = "lock"
  /\ threads.watcher.inside
  /\ _lock = "main"
  /\ HalfUpdated(threads.watcher.path)

============================================================================
